---- MODULE Spec2Model ----
(***************************************************************************)
(* Crypto / DeFi tools of dexter: the API client (src/tools/crypto/api.ts) *)
(* and the tool wrappers built on it (market and DeFi tools).              *)
(*                                                                         *)
(* A JavaScript string is a sequence of one-character strings, except that *)
(* a literal chunk of a template (a base URL, a fixed path, a fixed        *)
(* message) is kept as one element.  A JSON object is a record that has    *)
(* exactly the fields the provider sent; JSON null is NullBody.            *)
(***************************************************************************)
EXTENDS Integers, Sequences, FiniteSets, TLC

VARIABLES pc, tool, args, input, reqs, net, result

vars == <<pc, tool, args, input, reqs, net, result>>

(***************************************************************************)
(* Bounds of the model.                                                    *)
(***************************************************************************)
MaxProtocols == 6
MaxCompared == 2
MaxItems == 32
MaxPoints == 92

(***************************************************************************)
(* Program constants.                                                      *)
(***************************************************************************)
COINGECKO_BASE == "https://api.coingecko.com/api/v3"
DEFILLAMA_BASE == "https://api.llama.fi"
FanOut == 5
TvlWindow == 30
RateLimitStatus == 429
TopCoinsMax == 100
ExchangesMax == 50
ChainsCap == 30
StablecoinsCap == 20
DexesCap == 20
CategoriesCap == 30
SectorCoinsCap == 25
SearchCoinsCap == 10
HistoryWindow == 90
FearGreedHistory == 7
SampleTarget == 20
TrendingCount == 7

(***************************************************************************)
(* JavaScript values.                                                      *)
(***************************************************************************)
Undefined == <<"undefined">>
NullBody == [json_null |-> TRUE]
IsNull(d) == "json_null" \in DOMAIN d
Get(d, f) == IF f \in DOMAIN d THEN d[f] ELSE Undefined
Min(a, b) == IF a < b THEN a ELSE b
Max(a, b) == IF a > b THEN a ELSE b

(***************************************************************************)
(* encodeURIComponent: the unreserved characters stay, every other         *)
(* character becomes its percent escape.                                   *)
(***************************************************************************)
Unreserved == {"a", "b", "p", "e", "t", "h", "u", "s", "d",
               "0", "1", "2", "3", "4", "5", "6", "7", "8", "9", "-", "_", "."}
PercentEscape(c) ==
  CASE c = "/" -> <<"%", "2", "F">>
    [] c = " " -> <<"%", "2", "0">>
    [] c = "?" -> <<"%", "3", "F">>
    [] c = "&" -> <<"%", "2", "6">>
    [] c = "," -> <<"%", "2", "C">>
    [] OTHER -> <<"%", "3", "D">>
RECURSIVE encodeURIComponent(_)
encodeURIComponent(s) ==
  IF s = <<>> THEN <<>>
  ELSE (IF Head(s) \in Unreserved THEN <<Head(s)>> ELSE PercentEscape(Head(s)))
       \o encodeURIComponent(Tail(s))

(***************************************************************************)
(* URLSearchParams serialises a value as form-urlencoded: as above, but a  *)
(* space becomes "+".                                                      *)
(***************************************************************************)
RECURSIVE formUrlEncode(_)
formUrlEncode(s) ==
  IF s = <<>> THEN <<>>
  ELSE (IF Head(s) \in Unreserved THEN <<Head(s)>>
        ELSE IF Head(s) = " " THEN <<"+">> ELSE PercentEscape(Head(s)))
       \o formUrlEncode(Tail(s))

(***************************************************************************)
(* String(n) of an integer and Array.prototype.join(',').                  *)
(***************************************************************************)
DigitChar(k) == <<"0", "1", "2", "3", "4", "5", "6", "7", "8", "9">>[k + 1]
RECURSIVE DigitsOf(_)
DigitsOf(n) == IF n < 10 THEN <<DigitChar(n)>>
               ELSE DigitsOf(n \div 10) \o <<DigitChar(n % 10)>>
Abs(n) == IF n < 0 THEN -n ELSE n
NumberToString(n) == (IF n < 0 THEN <<"-">> ELSE <<>>) \o DigitsOf(Abs(n))
RECURSIVE JoinComma(_)
JoinComma(list) ==
  IF list = <<>> THEN <<>>
  ELSE IF Len(list) = 1 THEN list[1]
  ELSE list[1] \o <<",">> \o JoinComma(Tail(list))

(***************************************************************************)
(* The API client functions: each builds one URL.                          *)
(***************************************************************************)
getProtocolTVLUrl(protocol) ==
  <<DEFILLAMA_BASE, "/protocol/">> \o encodeURIComponent(protocol)
getChainTVLHistoryUrl(chain) ==
  <<DEFILLAMA_BASE, "/v2/historicalChainTvl/">> \o encodeURIComponent(chain)
searchTokensUrl(query) ==
  <<COINGECKO_BASE, "/search?query=">> \o encodeURIComponent(query)
getTokenInfoUrl(id) ==
  <<COINGECKO_BASE, "/coins/">> \o encodeURIComponent(id)
    \o <<"?localization=false&tickers=false&market_data=true&community_data=false&developer_data=false">>
\* api.ts 103, 115: vsCurrency and days are interpolated as they are.
getTokenOHLCUrl(id, vsCurrency, days) ==
  <<COINGECKO_BASE, "/coins/">> \o encodeURIComponent(id)
    \o <<"/ohlc?vs_currency=">> \o vsCurrency \o <<"&days=">> \o NumberToString(days)
getTokenMarketChartUrl(id, vsCurrency, days) ==
  <<COINGECKO_BASE, "/coins/">> \o encodeURIComponent(id)
    \o <<"/market_chart?vs_currency=">> \o vsCurrency
    \o <<"&days=">> \o NumberToString(days)
getTokenPriceUrl(ids, vsCurrencies) ==
  <<COINGECKO_BASE, "/simple/price?", "ids=">> \o formUrlEncode(JoinComma(ids))
    \o <<"&vs_currencies=">> \o formUrlEncode(JoinComma(vsCurrencies))
    \o <<"&include_market_cap=true&include_24hr_vol=true&include_24hr_change=true">>
getTopCoinsUrl(perPage, page) ==
  <<COINGECKO_BASE, "/coins/markets?", "vs_currency=usd&order=market_cap_desc",
    "&per_page=">> \o formUrlEncode(NumberToString(perPage))
    \o <<"&page=">> \o formUrlEncode(NumberToString(page))
    \o <<"&sparkline=false&price_change_percentage=1h%2C24h%2C7d%2C30d">>
getCategoryCoinsUrl(categoryId) ==
  <<COINGECKO_BASE, "/coins/markets?", "vs_currency=usd&category=">>
    \o formUrlEncode(categoryId)
    \o <<"&order=market_cap_desc&per_page=50&page=1&sparkline=false">>
getExchangesUrl(perPage) ==
  <<COINGECKO_BASE, "/exchanges?per_page=">> \o NumberToString(perPage)

(***************************************************************************)
(* The tools.  Every tool but compare_defi_protocols calls one client      *)
(* function; ToolUrl is the URL that function builds.                      *)
(***************************************************************************)
CompareTool == "compare_defi_protocols"
NoArgTools == {"get_top_defi_protocols", "get_chain_tvl_data", "get_defi_yields",
               "get_stablecoin_data", "get_dex_volume_data", "get_trending_crypto",
               "get_global_crypto_data", "get_top_crypto_coins",
               "get_crypto_fear_greed", "get_crypto_categories",
               "get_crypto_exchanges"}
ArgTools == {"get_defi_protocol_detail", "get_chain_tvl_trend", "search_crypto_tokens",
             "get_crypto_token_info", "get_crypto_price", "get_crypto_ohlc",
             "get_crypto_price_history", "get_crypto_by_sector"}
SingleCallTools == NoArgTools \cup ArgTools
TOOLS == SingleCallTools \cup {CompareTool}

\* defi.ts 556, 664: the page size asked of the provider.
\* The limit handed to the client as it is.
PerPageUnclamped(limit) == limit
TopCoinsPerPage(limit) == Min(limit, TopCoinsMax)
ExchangesPerPage(limit) == Min(limit, ExchangesMax)

ToolUrl(t, a, in) ==
  CASE t = "get_top_defi_protocols" -> <<DEFILLAMA_BASE, "/protocols">>
    [] t = "get_defi_protocol_detail" -> getProtocolTVLUrl(a)
    [] t = "get_chain_tvl_data" -> <<DEFILLAMA_BASE, "/v2/chains">>
    [] t = "get_chain_tvl_trend" -> getChainTVLHistoryUrl(a)
    [] t = "get_defi_yields" -> <<DEFILLAMA_BASE, "/pools">>
    [] t = "get_stablecoin_data" ->
         <<"https://stablecoins.llama.fi/stablecoins?includePrices=true">>
    [] t = "get_dex_volume_data" -> <<DEFILLAMA_BASE, "/overview/dexs">>
    [] t = "search_crypto_tokens" -> searchTokensUrl(a)
    [] t = "get_trending_crypto" -> <<COINGECKO_BASE, "/search/trending">>
    [] t = "get_crypto_token_info" -> getTokenInfoUrl(a)
    [] t = "get_crypto_price" -> getTokenPriceUrl(<<a>>, <<in.vs_currency>>)
    [] t = "get_crypto_ohlc" -> getTokenOHLCUrl(a, in.vs_currency, in.days)
    [] t = "get_crypto_price_history" -> getTokenMarketChartUrl(a, in.vs_currency, in.days)
    [] t = "get_global_crypto_data" -> <<COINGECKO_BASE, "/global">>
    [] t = "get_top_crypto_coins" ->
         getTopCoinsUrl(TopCoinsPerPage(in.limit), in.page)
    [] t = "get_crypto_fear_greed" -> <<"https://api.alternative.me/fng/?limit=10">>
    [] t = "get_crypto_categories" -> <<COINGECKO_BASE, "/coins/categories">>
    [] t = "get_crypto_by_sector" -> getCategoryCoinsUrl(a)
    [] OTHER -> getExchangesUrl(ExchangesPerPage(in.limit))

(***************************************************************************)
(* Tools whose body reads a property of the parsed data without a guard:   *)
(* on a JSON null they throw a TypeError.  The others use ?. or pass the   *)
(* data on.                                                                *)
(***************************************************************************)
DereferencesData == {"get_top_defi_protocols", "get_defi_protocol_detail",
                     "get_defi_yields", "get_stablecoin_data", "get_dex_volume_data",
                     "search_crypto_tokens", "get_trending_crypto",
                     "get_crypto_token_info", "get_crypto_price_history",
                     "get_global_crypto_data", "get_crypto_fear_greed"}

(***************************************************************************)
(* The arguments of a tool besides its identifier, after the schema has    *)
(* filled in the defaults.  An optional string that was not given is the   *)
(* empty string and an optional number that was not given is 0: the tools  *)
(* test them for truthiness only.                                          *)
(***************************************************************************)
NoInput == [none |-> TRUE]
DefaultLimit(t) == IF t = "get_top_defi_protocols" THEN 25 ELSE 20
DefaultInput(t) ==
  [limit |-> DefaultLimit(t), page |-> 1, chain |-> <<>>, category |-> <<>>,
   project |-> <<>>, min_tvl |-> 0, stablecoin_only |-> FALSE,
   vs_currency |-> <<"u", "s", "d">>, days |-> 30]

(***************************************************************************)
(* Inputs: identifiers a caller may pass and what a provider may answer.   *)
(***************************************************************************)
Digit == <<"1", "2", "3", "4", "5", "6", "7", "8", "9">>
SlugAt(i) == IF i % 3 = 2 THEN <<"a", "/", Digit[((i - 1) % 9) + 1]>>
                          ELSE <<"p", Digit[((i - 1) % 9) + 1]>>
ProtocolLists == { [i \in 1..n |-> SlugAt(i)] : n \in 0..MaxProtocols }
Identifiers == { SlugAt(1), SlugAt(2) }

Responses == { [status |-> 200, statusText |-> "OK"],
               [status |-> 404, statusText |-> "Not Found"],
               [status |-> 429, statusText |-> "Too Many Requests"],
               [status |-> 500, statusText |-> ""] }
NoResponse == [status |-> 0, statusText |-> ""]

TvlPoint(i) == [date |-> i, totalLiquidityUSD |-> IF i = 2 THEN 300 ELSE 100 + i]
ProtocolDoc == [name |-> <<"A">>, symbol |-> <<"S">>, category |-> <<"D">>,
                chains |-> <<<<"e">>, <<"s">>>>,
                tvl |-> [i \in 1..(TvlWindow + 1) |-> TvlPoint(i)]]
SparseDoc == [name |-> <<"B">>, tvl |-> <<[date |-> 1]>>]
BodyTexts == { [valid |-> TRUE, value |-> ProtocolDoc],
               [valid |-> TRUE, value |-> SparseDoc],
               [valid |-> TRUE, value |-> NullBody],
               [valid |-> FALSE, value |-> NullBody] }
NoBody == [valid |-> FALSE, value |-> [no_body |-> TRUE]]
NoData == [no_data |-> TRUE]

(***************************************************************************)
(* What the providers may send for each tool: documents with a list that   *)
(* is empty, short or longer than the tool's cap, with items that lack the *)
(* fields the tool reads, and documents without the list.  Every fourth    *)
(* item is sparse; the keys repeat, so that a sort meets ties.             *)
(***************************************************************************)
ListLengths == {0, 3, MaxItems}
SeriesLengths == {0, 1, 2, MaxPoints}
KeyAt(i) == ((i * 7) % 11) * 1000
RateAt(i) == ((i * 5) % 13) * 12345 - 30000
NameAt(i) == <<"p">> \o DigitsOf(i)
ProtocolItem(i) ==
  IF i % 4 = 0 THEN [name |-> NameAt(i), slug |-> NameAt(i)]
  ELSE [name |-> NameAt(i), slug |-> NameAt(i), tvl |-> KeyAt(i),
        tokenSymbol |-> <<"T">>, change_1d |-> RateAt(i), change_7d |-> RateAt(i + 1),
        change_1m |-> RateAt(i + 2),
        category |-> IF i % 2 = 0 THEN <<"D", "e", "x">> ELSE <<"L", "e", "n", "d">>,
        chain |-> IF i % 3 = 0 THEN <<"E", "t", "h">> ELSE <<"S", "o", "l">>,
        chains |-> <<<<"E", "t", "h">>, <<"B", "s", "c">>>>,
        total24h |-> KeyAt(i + 1), total7d |-> KeyAt(i) * 7]
PoolItem(i) ==
  IF i % 4 = 0 THEN [pool |-> NameAt(i), symbol |-> <<"S">>]
  ELSE [pool |-> NameAt(i), symbol |-> <<"S">>,
        project |-> IF i % 2 = 0 THEN <<"a", "a", "v", "e">> ELSE <<"c", "o", "m", "p">>,
        chain |-> IF i % 3 = 0 THEN <<"E", "t", "h">> ELSE <<"S", "o", "l">>,
        tvlUsd |-> KeyAt(i + 2), apy |-> KeyAt(i) + 189, apyBase |-> RateAt(i),
        stablecoin |-> i % 2 = 1, ilRisk |-> <<"n", "o">>]
StableItem(i) ==
  IF i % 4 = 0 THEN [name |-> NameAt(i), symbol |-> <<"S">>]
  ELSE IF i % 4 = 1 THEN [name |-> NameAt(i), symbol |-> <<"S">>,
                          circulating |-> [peggedEUR |-> KeyAt(i)]]
  ELSE [name |-> NameAt(i), symbol |-> <<"S">>, pegType |-> <<"U", "S", "D">>,
        circulating |-> [peggedUSD |-> KeyAt(i)], price |-> 10000]
CoinItem(i) ==
  IF i % 4 = 0 THEN [id |-> NameAt(i), name |-> NameAt(i)]
  ELSE [id |-> NameAt(i), name |-> NameAt(i), symbol |-> <<"b", "t", "c">>,
        market_cap_rank |-> i, current_price |-> KeyAt(i), market_cap |-> KeyAt(i) * 5,
        total_volume |-> KeyAt(i + 1),
        price_change_percentage_1h_in_currency |-> RateAt(i),
        price_change_percentage_24h |-> RateAt(i + 1),
        price_change_percentage_7d_in_currency |-> RateAt(i + 2),
        price_change_percentage_30d_in_currency |-> RateAt(i + 3),
        ath |-> KeyAt(i) * 2, ath_change_percentage |-> RateAt(i + 4),
        market_cap_change_24h |-> RateAt(i + 5), volume_24h |-> KeyAt(i + 2),
        trust_score |-> 10, trust_score_rank |-> i]
TrendingItem(i) ==
  IF i % 4 = 0 THEN [no_item |-> TRUE]
  ELSE IF i % 4 = 3 THEN [item |-> [id |-> NameAt(i), name |-> NameAt(i)]]
  ELSE [item |-> [id |-> NameAt(i), name |-> NameAt(i), symbol |-> <<"b", "t", "c">>,
                  market_cap_rank |-> i, price_btc |-> KeyAt(i), score |-> i - 1]]
\* A point of a TVL series; the series with zeroBase starts from 0.
SeriesPoint(i, zeroBase) ==
  [date |-> i,
   tvl |-> IF i = 1 /\ zeroBase THEN 0 ELSE 500 + KeyAt(i)]
UndatedPoint == [tvl |-> 700]
\* A price point [timestamp, price]; the series with zeroBase starts from 0.
PriceItem(i, zeroBase) ==
  <<i, IF i = 1 /\ zeroBase THEN 0 ELSE 500 + KeyAt(i)>>
FearGreedItem(i) ==
  IF i % 4 = 0 THEN [timestamp |-> i]
  ELSE [value |-> 20 + i, value_classification |-> <<"F", "e", "a", "r">>,
        timestamp |-> i]
Candle(i) == <<i, KeyAt(i), KeyAt(i) + 5, KeyAt(i) - 5, KeyAt(i) + 1>>

Array(list) == [json_array |-> list]
ErrorDoc == [message |-> <<"e">>]
ItemAt(kind, i) ==
  CASE kind = "protocol" -> ProtocolItem(i)
    [] kind = "pool" -> PoolItem(i)
    [] kind = "stablecoin" -> StableItem(i)
    [] kind = "trending" -> TrendingItem(i)
    [] kind = "fear_greed" -> FearGreedItem(i)
    [] kind = "candle" -> Candle(i)
    [] OTHER -> CoinItem(i)
Lists(kind, lengths) == { [i \in 1..n |-> ItemAt(kind, i)] : n \in lengths }
ArraysOf(kind, lengths) == { Array(list) : list \in Lists(kind, lengths) }

\* The lengths of a price series: around the sample size and its multiples.
PriceLengths ==
  SeriesLengths \cup {SampleTarget, SampleTarget + 1, 2 * SampleTarget + 1}

GlobalDocs ==
  { [data |-> [active_cryptocurrencies |-> 9000, markets |-> 800,
               market_cap_percentage |-> [btc |-> 543189, eth |-> 170050],
               market_cap_change_percentage_24h_usd |-> -12345]],
    [data |-> [active_cryptocurrencies |-> 9000,
               market_cap_percentage |-> [eth |-> 170050]]],
    [data |-> [markets |-> 800]],
    ErrorDoc }
TokenDocs ==
  { [id |-> NameAt(1), name |-> NameAt(1), symbol |-> <<"b", "t", "c">>,
     market_data |-> [market_cap_rank |-> 1, price_change_percentage_24h |-> 12345]],
    [id |-> NameAt(1), market_data |-> [market_cap_rank |-> 1]],
    [id |-> NameAt(1)] }
PriceDocs == { [p1 |-> [usd |-> 10000]], ErrorDoc }

ToolDocs(t) ==
  CASE t = "get_top_defi_protocols" \/ t = "get_chain_tvl_data" ->
         ArraysOf("protocol", ListLengths) \cup {NullBody, ErrorDoc}
    [] t = "get_defi_protocol_detail" ->
         {ProtocolDoc, SparseDoc, NullBody, [name |-> <<"C">>, tvl |-> <<UndatedPoint>>]}
    [] t = "get_chain_tvl_trend" ->
         { Array([i \in 1..n |-> SeriesPoint(i, z)]) :
             n \in SeriesLengths, z \in BOOLEAN }
           \cup {Array(<<SeriesPoint(1, FALSE), UndatedPoint>>),
                 Array(<<[date |-> 1], SeriesPoint(2, FALSE)>>),
                 Array(<<SeriesPoint(1, FALSE), [date |-> 2]>>), NullBody, ErrorDoc}
    [] t = "get_defi_yields" ->
         { [data |-> list] : list \in Lists("pool", ListLengths) }
           \cup {NullBody, ErrorDoc}
    [] t = "get_stablecoin_data" ->
         { [peggedAssets |-> list] : list \in Lists("stablecoin", ListLengths) }
           \cup {NullBody, ErrorDoc}
    [] t = "get_dex_volume_data" ->
         { [total24h |-> 5000, total7d |-> 30000, protocols |-> list] :
             list \in Lists("protocol", ListLengths) } \cup {NullBody, ErrorDoc}
    [] t = "search_crypto_tokens" ->
         { [coins |-> list, nfts |-> list] : list \in Lists("coin", ListLengths) }
           \cup {NullBody, ErrorDoc}
    [] t = "get_trending_crypto" ->
         { [coins |-> list] :
             list \in Lists("trending", {0, 3, TrendingCount, TrendingCount + 1}) }
           \cup {NullBody, ErrorDoc}
    [] t = "get_crypto_token_info" -> TokenDocs \cup {NullBody}
    [] t = "get_crypto_price" -> PriceDocs \cup {NullBody}
    [] t = "get_crypto_ohlc" ->
         ArraysOf("candle", ListLengths) \cup {Array(<<Candle(1), <<>>>>), NullBody, ErrorDoc}
    [] t = "get_crypto_price_history" ->
         { [prices |-> [i \in 1..n |-> PriceItem(i, z)]] :
             n \in PriceLengths, z \in BOOLEAN }
           \cup {[prices |-> <<<<1>>, PriceItem(2, FALSE)>>],
                 [prices |-> <<PriceItem(1, TRUE), <<2, 0>>>>],
                 NullBody, ErrorDoc}
    [] t = "get_global_crypto_data" -> GlobalDocs \cup {NullBody}
    [] t = "get_crypto_fear_greed" ->
         { [data |-> list] : list \in Lists("fear_greed", {0, 3, FearGreedHistory + 3}) }
           \cup {[data |-> <<[value |-> 50]>>], NullBody, ErrorDoc}
    [] OTHER -> ArraysOf("coin", ListLengths) \cup {NullBody, ErrorDoc}
ToolTexts(t) ==
  IF t = CompareTool THEN BodyTexts
  ELSE { [valid |-> TRUE, value |-> d] : d \in ToolDocs(t) }

\* The arguments a caller may give each tool.
Limits(t) == {-2, 0, 2, DefaultLimit(t)}
PageSizes(max) == {-2, 0, max - 1, max, max + 1}
Currencies == { <<"u", "s", "d">>, <<"u", "&", "d">> }
ToolInputs(t) ==
  CASE t = "get_top_defi_protocols" ->
         { [DefaultInput(t) EXCEPT !.limit = l, !.chain = c, !.category = g] :
             l \in Limits(t), c \in {<<>>, <<"e", "T", "H">>},
             g \in {<<>>, <<"L", "e", "n">>} }
    [] t = "get_defi_yields" ->
         { [DefaultInput(t) EXCEPT !.limit = l, !.chain = c, !.project = p,
                                   !.min_tvl = m, !.stablecoin_only = s] :
             l \in Limits(t), c \in {<<>>, <<"S", "o", "l">>},
             p \in {<<>>, <<"A", "a", "v">>}, m \in {0, 5000}, s \in BOOLEAN }
    [] t = "get_top_crypto_coins" ->
         { [DefaultInput(t) EXCEPT !.limit = l, !.page = p] :
             l \in PageSizes(TopCoinsMax), p \in {1, 2} }
    [] t = "get_crypto_exchanges" ->
         { [DefaultInput(t) EXCEPT !.limit = l] : l \in PageSizes(ExchangesMax) }
    [] t \in {"get_crypto_price", "get_crypto_ohlc", "get_crypto_price_history"} ->
         { [DefaultInput(t) EXCEPT !.vs_currency = v, !.days = d] :
             v \in Currencies, d \in {1, 30} }
    [] OTHER -> {DefaultInput(t)}

(***************************************************************************)
(* Errors.                                                                 *)
(***************************************************************************)
NoError == [name |-> "", message |-> <<>>]
RateLimitError ==
  [name |-> "Error",
   message |-> <<"Rate limited by API. Please wait a moment and try again.">>]
\* The generic failure with the status text left out of the message.
ApiFailedErrorNoText(response) ==
  [name |-> "Error",
   message |-> <<"API request failed: ", ToString(response.status)>>]
ApiFailedError(response) ==
  [name |-> "Error",
   message |-> <<"API request failed: ", ToString(response.status), " ",
                 response.statusText>>]
FetchRejection == [name |-> "TypeError", message |-> <<"fetch failed">>]
JsonRejection == [name |-> "SyntaxError", message |-> <<"Unexpected token">>]
NullDereference ==
  [name |-> "TypeError", message |-> <<"Cannot read properties of null">>]

(***************************************************************************)
(* fetchJson.  A call is a record: the URL it was given, where it stands   *)
(* (inflight: awaiting fetch; parsing: awaiting response.json(); fulfilled *)
(* or rejected), the response received, the body read, and what the call   *)
(* returned ({data, url}) or threw.                                        *)
(***************************************************************************)
fetchJson(url) ==
  [url |-> url, st |-> "inflight", response |-> NoResponse, body |-> NoBody,
   data |-> NoData, err |-> NoError]

ResponseOk(response) == response.status >= 200 /\ response.status <= 299

\* checkResponse without the 429 branch: every non-2xx is the generic failure.
checkResponseGenericOnly(call, response) ==
  IF ~ResponseOk(response)
    THEN [call EXCEPT !.st = "rejected", !.response = response,
                      !.err = ApiFailedError(response)]
    ELSE [call EXCEPT !.st = "parsing", !.response = response]

\* checkResponse without the response.ok check: every body is parsed.
checkResponseAnyStatus(call, response) ==
  [call EXCEPT !.st = "parsing", !.response = response]

\* api.ts 24-29: the status check made once fetch has resolved.
checkResponse(call, response) ==
  IF ~ResponseOk(response)
    THEN IF response.status = RateLimitStatus
           THEN [call EXCEPT !.st = "rejected", !.response = response,
                             !.err = RateLimitError]
           ELSE [call EXCEPT !.st = "rejected", !.response = response,
                             !.err = ApiFailedError(response)]
    ELSE [call EXCEPT !.st = "parsing", !.response = response]

\* A catch-all around fetch that reports every failure as a rate limit.
fetchRejectedAsRateLimit(call) ==
  [call EXCEPT !.st = "rejected", !.err = RateLimitError]

\* api.ts 18: fetch itself rejects; nothing in fetchJson catches it.
fetchRejected(call) == [call EXCEPT !.st = "rejected", !.err = FetchRejection]

\* api.ts 31-32: response.json() parses the body text.
readJson(call, text) ==
  IF text.valid
    THEN [call EXCEPT !.st = "fulfilled", !.body = text, !.data = text.value]
    ELSE [call EXCEPT !.st = "rejected", !.body = text, !.err = JsonRejection]

Settled(call) == call.st \in {"fulfilled", "rejected"}
Envelope(call) == [data |-> call.data, url |-> call.url]

(***************************************************************************)
(* Number.prototype.toFixed(2) of num / den * 100, followed by "%": the    *)
(* value rounded to hundredths (den > 0).                                  *)
(***************************************************************************)
Hundredths(num, den) == (2 * Abs(num) * 10000 + den) \div (2 * den)
PercentChange(num, den) ==
  (IF num < 0 THEN <<"-">> ELSE <<>>)
    \o DigitsOf(Hundredths(num, den) \div 100)
    \o <<".", DigitChar((Hundredths(num, den) % 100) \div 10),
         DigitChar(Hundredths(num, den) % 10), "%">>
NotAvailable == <<"N", "/", "A">>

(***************************************************************************)
(* The tool result handed to the agent.                                    *)
(***************************************************************************)
formatToolResult(data, sourceUrls) ==
  [kind |-> "ok", data |-> data, sourceUrls |-> sourceUrls]
ToolFailure(err) == [kind |-> "error", err |-> err]
NoResult == [kind |-> "none"]

(***************************************************************************)
(* compare_defi_protocols (defi.ts 303-332).                               *)
(***************************************************************************)
\* The map without slice(0, 5).
FanOutUnbounded(protocols) == protocols

\* defi.ts 305: only the first five identifiers are mapped.
FanOutSlice(protocols) == SubSeq(protocols, 1, Min(Len(protocols), FanOut))

\* d.tvl?.[k]?.totalLiquidityUSD || 0, with k counted from 0 as in the source.
LiquidityAt(d, k) ==
  IF "tvl" \notin DOMAIN d THEN 0
  ELSE IF k < 0 \/ k >= Len(d.tvl) THEN 0
  ELSE IF "totalLiquidityUSD" \notin DOMAIN d.tvl[k + 1] THEN 0
  ELSE d.tvl[k + 1].totalLiquidityUSD

\* defi.ts 309-316: the entry built from a protocol document.
ProtocolEntry(d) ==
  [name |-> Get(d, "name"), symbol |-> Get(d, "symbol"),
   category |-> Get(d, "category"),
   chains |-> IF "chains" \in DOMAIN d THEN Len(d.chains) ELSE 0,
   current_tvl |-> LiquidityAt(d, (IF "tvl" \in DOMAIN d THEN Len(d.tvl) ELSE 0) - 1),
   tvl_30d_ago |-> LiquidityAt(d, Max(0, (IF "tvl" \in DOMAIN d THEN Len(d.tvl) ELSE 0)
                                           - TvlWindow))]

\* defi.ts 318: the entry built in the catch block.
FailureEntry(protocol) == [name |-> protocol, error |-> "Failed to fetch data"]

\* The item without its try/catch: what the try block throws rejects it.
ItemPromiseNoCatch(protocol, call) ==
  IF ~Settled(call) THEN [st |-> "pending"]
  ELSE IF call.st = "rejected" THEN [st |-> "rejected", err |-> call.err]
  ELSE IF IsNull(call.data) THEN [st |-> "rejected", err |-> NullDereference]
  ELSE [st |-> "fulfilled", value |-> ProtocolEntry(Envelope(call).data)]

\* defi.ts 305-320: the promise of one mapped item, from the state of its
\* client call.  The try block throws when the call rejects and when the
\* data is null (d.name); the catch block turns both into a FailureEntry.
ItemPromise(protocol, call) ==
  IF ~Settled(call) THEN [st |-> "pending"]
  ELSE IF call.st = "rejected" \/ IsNull(call.data)
    THEN [st |-> "fulfilled", value |-> FailureEntry(protocol)]
    ELSE [st |-> "fulfilled", value |-> ProtocolEntry(Envelope(call).data)]

\* Promise.race in place of Promise.all: settled as soon as one promise is.
PromiseRace(promises) ==
  IF \E i \in DOMAIN promises : promises[i].st = "rejected"
    THEN [st |-> "rejected",
          err |-> promises[CHOOSE i \in DOMAIN promises :
                             promises[i].st = "rejected"].err]
  ELSE IF promises = <<>> \/ \E i \in DOMAIN promises : promises[i].st = "fulfilled"
    THEN [st |-> "fulfilled",
          value |-> [i \in DOMAIN promises |->
                       IF promises[i].st = "fulfilled" THEN promises[i].value
                       ELSE [name |-> Undefined, error |-> "pending"]]]
  ELSE [st |-> "pending"]

\* An aggregate that collects the values as they arrive, the failure entries
\* of rejected calls (which skip the body) ahead of the entries built from
\* a parsed body.
PromiseAllAsSettled(promises) ==
  IF \E i \in DOMAIN promises : promises[i].st = "rejected"
    THEN [st |-> "rejected",
          err |-> promises[CHOOSE i \in DOMAIN promises :
                             promises[i].st = "rejected"].err]
  ELSE IF \A i \in DOMAIN promises : promises[i].st = "fulfilled"
    THEN [st |-> "fulfilled",
          value |-> SelectSeq([i \in DOMAIN promises |-> promises[i].value],
                              LAMBDA v : "error" \in DOMAIN v)
                      \o SelectSeq([i \in DOMAIN promises |-> promises[i].value],
                                   LAMBDA v : "error" \notin DOMAIN v)]
  ELSE [st |-> "pending"]

\* Promise.all: rejected as soon as one promise is, fulfilled with every
\* value, in order, once all are.
PromiseAll(promises) ==
  IF \E i \in DOMAIN promises : promises[i].st = "rejected"
    THEN [st |-> "rejected",
          err |-> promises[CHOOSE i \in DOMAIN promises :
                             promises[i].st = "rejected"].err]
  ELSE IF \A i \in DOMAIN promises : promises[i].st = "fulfilled"
    THEN [st |-> "fulfilled", value |-> [i \in DOMAIN promises |-> promises[i].value]]
  ELSE [st |-> "pending"]

\* defi.ts 324-329: r.tvl_30d_ago > 0 is false for an entry without the field.
WithChange(r) ==
  IF "tvl_30d_ago" \in DOMAIN r /\ r.tvl_30d_ago > 0
    THEN [name |-> r.name, symbol |-> r.symbol, category |-> r.category,
          chains |-> r.chains, current_tvl |-> r.current_tvl,
          tvl_30d_ago |-> r.tvl_30d_ago,
          tvl_change_30d |-> PercentChange(r.current_tvl - r.tvl_30d_ago, r.tvl_30d_ago)]
  ELSE IF "error" \in DOMAIN r
    THEN [name |-> r.name, error |-> r.error, tvl_change_30d |-> NotAvailable]
    ELSE [name |-> r.name, symbol |-> r.symbol, category |-> r.category,
          chains |-> r.chains, current_tvl |-> r.current_tvl,
          tvl_30d_ago |-> r.tvl_30d_ago, tvl_change_30d |-> NotAvailable]

CompareItems ==
  PromiseAll([i \in DOMAIN reqs |-> ItemPromise(args[i], reqs[i])])

(***************************************************************************)
(* What a tool body does with the parsed data.  A JSON array is the record *)
(* [json_array |-> its elements]; a fractional number (a percentage, an    *)
(* APY, a price) is kept as its count of ten-thousandths; a tool body      *)
(* either returns a payload or throws.                                     *)
(***************************************************************************)
IsArray(d) == "json_array" \in DOMAIN d
Ok(value) == [threw |-> FALSE, value |-> value]
Throw(err) == [threw |-> TRUE, err |-> err]
NotAFunction == [name |-> "TypeError", message |-> <<"is not a function">>]
UndefinedDereference ==
  [name |-> "TypeError", message |-> <<"Cannot read properties of undefined">>]
InvalidDate == [name |-> "RangeError", message |-> <<"Invalid time value">>]
JsNull == <<"null">>

\* A field whose value is undefined is left out of the payload, as
\* JSON.stringify leaves it out.
\* x || 0 of a numeric field.
OrZero(d, f) == IF f \in DOMAIN d THEN d[f] ELSE 0

\* Array.prototype.slice(0, end) and slice(-n).
SliceTo(list, end) ==
  SubSeq(list, 1, IF end < 0 THEN Max(Len(list) + end, 0) ELSE Min(end, Len(list)))
\* slice(0, n) in place of slice(-n).
SliceFirst(list, n) == SubSeq(list, 1, Min(n, Len(list)))
SliceLast(list, n) == SubSeq(list, Max(Len(list) - n, 0) + 1, Len(list))

\* Array.prototype.sort with the comparator (a, b) => key(b) - key(a): a
\* stable sort, largest key first.  SortDescending is the order of the
\* indices of keys after the sort.
RECURSIVE InsertDescending(_, _, _)
InsertDescending(order, k, keys) ==
  IF order = <<>> THEN <<k>>
  ELSE IF keys[Head(order)] < keys[k] THEN <<k>> \o order
  ELSE <<Head(order)>> \o InsertDescending(Tail(order), k, keys)
RECURSIVE SortPrefix(_, _)
SortPrefix(keys, n) ==
  IF n = 0 THEN <<>> ELSE InsertDescending(SortPrefix(keys, n - 1), n, keys)
\* A sort that leaves the list in the order the provider sent it.
SortNothing(keys) == [i \in DOMAIN keys |-> i]
SortDescending(keys) == SortPrefix(keys, Len(keys))
SortedBy(list, keys) ==
  LET order == SortDescending(keys) IN [i \in DOMAIN list |-> list[order[i]]]

\* String.prototype.toLowerCase, toUpperCase and includes.
LowerOf(c) ==
  CASE c = "A" -> "a" [] c = "B" -> "b" [] c = "C" -> "c" [] c = "D" -> "d"
    [] c = "E" -> "e" [] c = "H" -> "h" [] c = "L" -> "l" [] c = "S" -> "s"
    [] c = "T" -> "t" [] c = "U" -> "u" [] OTHER -> c
UpperOf(c) ==
  CASE c = "a" -> "A" [] c = "b" -> "B" [] c = "c" -> "C" [] c = "d" -> "D"
    [] c = "e" -> "E" [] c = "h" -> "H" [] c = "l" -> "L" [] c = "s" -> "S"
    [] c = "t" -> "T" [] c = "u" -> "U" [] OTHER -> c
toLowerCase(s) == [i \in DOMAIN s |-> LowerOf(s[i])]
toUpperCase(s) == [i \in DOMAIN s |-> UpperOf(s[i])]
includes(s, part) ==
  \E i \in 0..(Len(s) - Len(part)) : SubSeq(s, i + 1, i + Len(part)) = part

\* Number.prototype.toFixed(2) of a number given in ten-thousandths.
\* A formatter that cuts the digits after the second decimal off.
toFixedTruncated(x) ==
  (IF x < 0 THEN <<"-">> ELSE <<>>)
    \o DigitsOf((Abs(x) \div 100) \div 100)
    \o <<".", DigitChar(((Abs(x) \div 100) % 100) \div 10),
         DigitChar((Abs(x) \div 100) % 10)>>
toFixed(x) ==
  (IF x < 0 THEN <<"-">> ELSE <<>>)
    \o DigitsOf(((Abs(x) + 50) \div 100) \div 100)
    \o <<".", DigitChar((((Abs(x) + 50) \div 100) % 100) \div 10),
         DigitChar(((Abs(x) + 50) \div 100) % 10)>>

\* p.f?.toFixed(2) + '%': the optional chain gives undefined for a field
\* that is not there, and undefined + '%' is the string "undefined%".
PercentField(p, f) ==
  IF f \in DOMAIN p THEN toFixed(p[f]) \o <<"%">> ELSE Undefined \o <<"%">>

\* new Date(ms).toISOString(): a RangeError for a date that is not a number.
\* An ISO date is written here as the instant it names.
ValidDate(p, f) == f \in DOMAIN p
toISOString(ms) == [iso |-> ms]

(***************************************************************************)
(* get_top_defi_protocols (defi.ts 30-69).                                 *)
(***************************************************************************)
\* defi.ts 38-40
OnChain(p, chainLower) ==
  \/ "chain" \in DOMAIN p /\ toLowerCase(p.chain) = chainLower
  \/ "chains" \in DOMAIN p
       /\ \E i \in DOMAIN p.chains : toLowerCase(p.chains[i]) = chainLower
\* defi.ts 46-48
InCategory(p, catLower) ==
  "category" \in DOMAIN p /\ includes(toLowerCase(p.category), catLower)
\* defi.ts 56-66
TopProtocolEntry(p) ==
  [name |-> Get(p, "name"), tvl |-> Get(p, "tvl"),
   tvl_change_1d |-> PercentField(p, "change_1d"),
   tvl_change_7d |-> PercentField(p, "change_7d"),
   tvl_change_1m |-> PercentField(p, "change_1m"),
   category |-> Get(p, "category"),
   chains |-> IF "chains" \in DOMAIN p THEN SliceTo(p.chains, 5) ELSE Undefined,
   slug |-> Get(p, "slug")]
\* A tool that skips its filters.
FilterNothing(in, protocols) == protocols
FilterProtocols(in, protocols) ==
  LET onChain == IF in.chain = <<>> THEN protocols
                 ELSE SelectSeq(protocols,
                                LAMBDA p : OnChain(p, toLowerCase(in.chain)))
  IN IF in.category = <<>> THEN onChain
     ELSE SelectSeq(onChain, LAMBDA p : InCategory(p, toLowerCase(in.category)))
TopProtocols(in, protocols) ==
  LET kept == FilterProtocols(in, protocols)
      sorted == SortedBy(kept, [i \in DOMAIN kept |-> OrZero(kept[i], "tvl")])
  IN SliceTo(sorted, in.limit)
getTopDefiProtocols(in, data) ==
  IF ~IsArray(data) THEN Throw(NotAFunction)
  ELSE LET kept == TopProtocols(in, data.json_array)
           entries == [i \in DOMAIN kept |-> TopProtocolEntry(kept[i])]
       IN Ok([protocols |-> entries, count |-> Len(entries)])

(***************************************************************************)
(* get_chain_tvl_data (defi.ts 131-142).                                   *)
(***************************************************************************)
ChainEntry(c) ==
  [name |-> Get(c, "name"), tvl |-> Get(c, "tvl"),
   token_symbol |-> Get(c, "tokenSymbol")]
\* A tool that counts the list it received, not the one it returns.
getChainTVLDataCountsReceived(in, data) ==
  IF IsNull(data) THEN Ok([count |-> 0])
  ELSE IF ~IsArray(data) THEN Throw(NotAFunction)
  ELSE LET list == data.json_array
           sorted == SortedBy(list, [i \in DOMAIN list |-> OrZero(list[i], "tvl")])
           kept == SliceTo(sorted, ChainsCap)
           chains == [i \in DOMAIN kept |-> ChainEntry(kept[i])]
       IN Ok([chains |-> chains, count |-> Len(list)])
getChainTVLData(in, data) ==
  IF IsNull(data) THEN Ok([count |-> 0])
  ELSE IF ~IsArray(data) THEN Throw(NotAFunction)
  ELSE LET list == data.json_array
           sorted == SortedBy(list, [i \in DOMAIN list |-> OrZero(list[i], "tvl")])
           kept == SliceTo(sorted, ChainsCap)
           chains == [i \in DOMAIN kept |-> ChainEntry(kept[i])]
       IN Ok([chains |-> chains, count |-> Len(chains)])

(***************************************************************************)
(* get_defi_yields (defi.ts 189-231).                                      *)
(***************************************************************************)
\* defi.ts 193-210: the four filters, in the order of the source.
KeepPool(in, p) ==
  /\ in.chain = <<>>
       \/ ("chain" \in DOMAIN p /\ toLowerCase(p.chain) = toLowerCase(in.chain))
  /\ in.project = <<>>
       \/ ("project" \in DOMAIN p
             /\ includes(toLowerCase(p.project), toLowerCase(in.project)))
  /\ in.min_tvl = 0 \/ ("tvlUsd" \in DOMAIN p /\ p.tvlUsd >= in.min_tvl)
  /\ ~in.stablecoin_only \/ ("stablecoin" \in DOMAIN p /\ p.stablecoin)
PoolEntry(p) ==
  [pool |-> Get(p, "pool"), symbol |-> Get(p, "symbol"),
   project |-> Get(p, "project"), chain |-> Get(p, "chain"),
   tvl_usd |-> Get(p, "tvlUsd"), apy |-> PercentField(p, "apy"),
   apy_base |-> PercentField(p, "apyBase"),
   apy_reward |-> PercentField(p, "apyReward"),
   stablecoin |-> Get(p, "stablecoin"), il_risk |-> Get(p, "ilRisk")]
YieldPools(in, pools) ==
  LET kept == SelectSeq(pools, LAMBDA p : KeepPool(in, p))
      sorted == SortedBy(kept, [i \in DOMAIN kept |-> OrZero(kept[i], "apy")])
  IN SliceTo(sorted, in.limit)
getDefiYields(in, data) ==
  LET pools == IF "data" \in DOMAIN data THEN data.data ELSE <<>>
      kept == YieldPools(in, pools)
      entries == [i \in DOMAIN kept |-> PoolEntry(kept[i])]
  IN Ok([pools |-> entries, count |-> Len(entries)])

(***************************************************************************)
(* get_stablecoin_data (defi.ts 244-258).                                  *)
(***************************************************************************)
Circulating(s) ==
  IF "circulating" \in DOMAIN s THEN OrZero(s.circulating, "peggedUSD") ELSE 0
StablecoinEntry(s) ==
  [name |-> Get(s, "name"), symbol |-> Get(s, "symbol"),
   peg_type |-> Get(s, "pegType"), peg_mechanism |-> Get(s, "pegMechanism"),
   circulating |-> IF "circulating" \in DOMAIN s
                     THEN Get(s.circulating, "peggedUSD") ELSE Undefined,
   price |-> Get(s, "price")]
getStablecoinData(in, data) ==
  IF "peggedAssets" \notin DOMAIN data
    THEN Ok([count |-> 0])
  ELSE LET list == data.peggedAssets
           sorted == SortedBy(list, [i \in DOMAIN list |-> Circulating(list[i])])
           kept == SliceTo(sorted, StablecoinsCap)
           stables == [i \in DOMAIN kept |-> StablecoinEntry(kept[i])]
       IN Ok([stablecoins |-> stables, count |-> Len(stables)])

(***************************************************************************)
(* get_dex_volume_data (defi.ts 271-290).                                  *)
(***************************************************************************)
DexEntry(p) ==
  [name |-> Get(p, "name"), volume_24h |-> Get(p, "total24h"),
   volume_7d |-> Get(p, "total7d"), volume_30d |-> Get(p, "total30d"),
   change_24h |-> PercentField(p, "change_1d"),
   chains |-> IF "chains" \in DOMAIN p THEN SliceTo(p.chains, 5) ELSE Undefined]
getDexVolumeData(in, data) ==
  IF "protocols" \notin DOMAIN data
    THEN Ok([total_volume_24h |-> Get(data, "total24h"),
             total_volume_7d |-> Get(data, "total7d")])
  ELSE LET list == data.protocols
           sorted == SortedBy(list, [i \in DOMAIN list |-> OrZero(list[i], "total24h")])
           kept == SliceTo(sorted, DexesCap)
       IN Ok([total_volume_24h |-> Get(data, "total24h"),
              total_volume_7d |-> Get(data, "total7d"),
              protocols |-> [i \in DOMAIN kept |-> DexEntry(kept[i])]])

(***************************************************************************)
(* get_defi_protocol_detail (defi.ts 78-118) and get_chain_tvl_trend       *)
(* (defi.ts 151-169).                                                      *)
(***************************************************************************)
\* defi.ts 93-96, 153-156: the points mapped to {date, tvl}; the date of a
\* point without one cannot be formatted.
DatedPoints(points, f) ==
  IF \E i \in DOMAIN points : ~ValidDate(points[i], "date")
    THEN Throw(InvalidDate)
    ELSE Ok([i \in DOMAIN points |->
               [date |-> toISOString(points[i].date), tvl |-> Get(points[i], f)]])
getDefiProtocolDetail(a, in, data) ==
  LET tvlHistory ==
        IF "tvl" \in DOMAIN data
          THEN DatedPoints(SliceLast(data.tvl, TvlWindow), "totalLiquidityUSD")
          ELSE Ok(<<>>)
  IN IF tvlHistory.threw THEN tvlHistory
     ELSE Ok([name |-> Get(data, "name"), symbol |-> Get(data, "symbol"),
              category |-> Get(data, "category"), chains |-> Get(data, "chains"),
              current_tvl |->
                IF "tvl" \in DOMAIN data /\ data.tvl # <<>>
                  THEN Get(data.tvl[Len(data.tvl)], "totalLiquidityUSD")
                  ELSE Undefined,
              tvl_history_30d |-> tvlHistory.value,
              token |-> Get(data, "symbol")])
getChainTVLTrend(a, in, data) ==
  IF ~IsNull(data) /\ ~IsArray(data) THEN Throw(NotAFunction)
  ELSE LET points == IF IsNull(data) THEN <<>>
                     ELSE SliceLast(data.json_array, HistoryWindow)
           mapped == DatedPoints(points, "tvl")
       IN IF mapped.threw THEN mapped
          ELSE LET history == mapped.value
                   first == IF points = <<>> THEN 0
                            ELSE OrZero(points[1], "tvl")
                   last == IF points = <<>> THEN 0
                           ELSE OrZero(points[Len(points)], "tvl")
               IN Ok([chain |-> a, current_tvl |-> last, tvl_90d_ago |-> first,
                      change_90d |-> IF first > 0
                                       THEN PercentChange(last - first, first)
                                       ELSE NotAvailable,
                      history |-> history])

(***************************************************************************)
(* search_crypto_tokens (defi.ts 368-381) and get_trending_crypto          *)
(* (defi.ts 390-399).                                                      *)
(***************************************************************************)
UpperField(c, f) == IF f \in DOMAIN c THEN toUpperCase(c[f]) ELSE Undefined
SearchCoinEntry(c) ==
  [id |-> Get(c, "id"), name |-> Get(c, "name"), symbol |-> UpperField(c, "symbol"),
   market_cap_rank |-> Get(c, "market_cap_rank")]
searchCryptoTokens(a, in, data) ==
  Ok([coins |-> IF "coins" \in DOMAIN data
                  THEN [i \in DOMAIN SliceTo(data.coins, SearchCoinsCap) |->
                          SearchCoinEntry(SliceTo(data.coins, SearchCoinsCap)[i])]
                  ELSE <<>>,
      categories |-> IF "categories" \in DOMAIN data
                       THEN SliceTo(data.categories, 5) ELSE <<>>,
      nfts |-> IF "nfts" \in DOMAIN data THEN SliceTo(data.nfts, 3) ELSE <<>>])
\* defi.ts 392-399: item.item?.f is undefined when item has no item.
TrendingEntry(item) ==
  LET coin == IF "item" \in DOMAIN item THEN item.item ELSE [none |-> TRUE]
  IN [id |-> Get(coin, "id"), name |-> Get(coin, "name"),
      symbol |-> UpperField(coin, "symbol"),
      market_cap_rank |-> Get(coin, "market_cap_rank"),
      price_btc |-> Get(coin, "price_btc"), score |-> Get(coin, "score")]
getTrendingCrypto(in, data) ==
  Ok([trending_coins |->
        IF "coins" \in DOMAIN data
          THEN [i \in DOMAIN data.coins |-> TrendingEntry(data.coins[i])]
          ELSE <<>>])

(***************************************************************************)
(* get_crypto_token_info (defi.ts 414-449), get_crypto_price (466) and     *)
(* get_crypto_ohlc (485-492).                                              *)
(***************************************************************************)
getCryptoTokenInfo(a, in, data) ==
  Ok([id |-> Get(data, "id"), name |-> Get(data, "name"),
      symbol |-> UpperField(data, "symbol"),
      market_data |->
        IF "market_data" \in DOMAIN data
          THEN [market_cap_rank |-> Get(data.market_data, "market_cap_rank"),
                price_change_24h |->
                  Get(data.market_data, "price_change_percentage_24h"),
                price_change_7d |->
                  Get(data.market_data, "price_change_percentage_7d"),
                price_change_30d |->
                  Get(data.market_data, "price_change_percentage_30d")]
          ELSE JsNull,
      genesis_date |-> Get(data, "genesis_date")])
getCryptoPrice(a, in, data) == Ok(data)
\* A candle is [timestamp, open, high, low, close].
At(list, k) == IF k + 1 \in DOMAIN list THEN list[k + 1] ELSE Undefined
CandleEntry(candle) ==
  [timestamp |-> toISOString(candle[1]), open |-> At(candle, 1),
   high |-> At(candle, 2), low |-> At(candle, 3), close |-> At(candle, 4)]
getCryptoOHLC(a, in, data) ==
  IF IsNull(data) THEN Ok([ohlc |-> <<>>, count |-> 0])
  ELSE IF ~IsArray(data) THEN Throw(NotAFunction)
  ELSE IF \E i \in DOMAIN data.json_array : data.json_array[i] = <<>>
    THEN Throw(InvalidDate)
  ELSE Ok([ohlc |-> [i \in DOMAIN data.json_array |->
                       CandleEntry(data.json_array[i])],
           count |-> Len(data.json_array)])

(***************************************************************************)
(* get_crypto_price_history (defi.ts 505-520).  A price point is           *)
(* [timestamp, price].                                                     *)
(***************************************************************************)
\* defi.ts 513: ((last - first) / first * 100).toFixed(2) + '%'.  Nothing
\* looks at first before the division: a first price of 0 gives Infinity,
\* -Infinity or NaN, and toFixed gives their names.
PriceChange(first, last) ==
  IF Len(first) < 2 \/ Len(last) < 2 THEN <<"NaN", "%">>
  ELSE IF first[2] = 0
    THEN IF last[2] > 0 THEN <<"Infinity", "%">>
         ELSE IF last[2] < 0 THEN <<"-Infinity", "%">>
         ELSE <<"NaN", "%">>
  ELSE IF first[2] > 0 THEN PercentChange(last[2] - first[2], first[2])
  ELSE PercentChange(first[2] - last[2], -first[2])
PricePoint(p) == [date |-> toISOString(p[1]), price |-> At(p, 1)]
\* defi.ts 515: every ceil(length / 20)-th point, counted from 0.
\* A step rounded down instead of up.
SampleStepFloor(n) == Max(1, n \div SampleTarget)
SampleStep(n) == (n + (SampleTarget - 1)) \div SampleTarget
Sampled(prices) ==
  LET kept == SelectSeq([i \in DOMAIN prices |-> i],
                        LAMBDA i : (i - 1) % SampleStep(Len(prices)) = 0)
  IN [k \in DOMAIN kept |-> PricePoint(prices[kept[k]])]
\* A tool that computes the change as soon as there is one point.
getCryptoPriceHistoryFromOnePoint(a, in, data) ==
  LET prices == IF "prices" \in DOMAIN data THEN data.prices ELSE <<>>
  IN IF \E i \in DOMAIN prices : prices[i] = <<>> THEN Throw(InvalidDate)
     ELSE Ok([data_points |-> Len(prices),
              first_price |-> IF prices = <<>> THEN JsNull
                              ELSE PricePoint(prices[1]),
              last_price |-> IF prices = <<>> THEN JsNull
                             ELSE PricePoint(prices[Len(prices)]),
              price_change |-> IF Len(prices) >= 1
                                 THEN PriceChange(prices[1], prices[Len(prices)])
                                 ELSE JsNull,
              sampled_prices |-> Sampled(prices)])
getCryptoPriceHistory(a, in, data) ==
  LET prices == IF "prices" \in DOMAIN data THEN data.prices ELSE <<>>
  IN IF \E i \in DOMAIN prices : prices[i] = <<>> THEN Throw(InvalidDate)
     ELSE Ok([data_points |-> Len(prices),
              first_price |-> IF prices = <<>> THEN JsNull
                              ELSE PricePoint(prices[1]),
              last_price |-> IF prices = <<>> THEN JsNull
                             ELSE PricePoint(prices[Len(prices)]),
              price_change |-> IF Len(prices) >= 2
                                 THEN PriceChange(prices[1], prices[Len(prices)])
                                 ELSE JsNull,
              sampled_prices |-> Sampled(prices)])

(***************************************************************************)
(* get_global_crypto_data (defi.ts 533-545).                               *)
(***************************************************************************)
\* d.f?.g?.toFixed(2) + '%'
NestedPercentField(d, f, g) ==
  IF f \in DOMAIN d THEN PercentField(d[f], g) ELSE Undefined \o <<"%">>
getGlobalCryptoData(in, data) ==
  IF "data" \notin DOMAIN data THEN Throw(UndefinedDereference)
  ELSE LET d == data.data
       IN Ok([active_cryptocurrencies |-> Get(d, "active_cryptocurrencies"),
              markets |-> Get(d, "markets"),
              btc_dominance |-> NestedPercentField(d, "market_cap_percentage", "btc"),
              eth_dominance |-> NestedPercentField(d, "market_cap_percentage", "eth"),
              market_cap_change_24h |->
                PercentField(d, "market_cap_change_percentage_24h_usd")])

(***************************************************************************)
(* get_top_crypto_coins (defi.ts 555-574), get_crypto_categories (620-629),*)
(* get_crypto_by_sector (640-650) and get_crypto_exchanges (664-675).      *)
(***************************************************************************)
CoinEntry(c) ==
  [rank |-> Get(c, "market_cap_rank"), id |-> Get(c, "id"),
   symbol |-> UpperField(c, "symbol"), name |-> Get(c, "name"),
   price_usd |-> Get(c, "current_price"), market_cap |-> Get(c, "market_cap"),
   volume_24h |-> Get(c, "total_volume"),
   price_change_1h |-> PercentField(c, "price_change_percentage_1h_in_currency"),
   price_change_24h |-> PercentField(c, "price_change_percentage_24h"),
   price_change_7d |-> PercentField(c, "price_change_percentage_7d_in_currency"),
   price_change_30d |-> PercentField(c, "price_change_percentage_30d_in_currency"),
   ath |-> Get(c, "ath"), ath_change |-> PercentField(c, "ath_change_percentage")]
getTopCryptoCoins(in, data) ==
  IF IsNull(data) THEN Ok([coins |-> <<>>, count |-> 0])
  ELSE IF ~IsArray(data) THEN Throw(NotAFunction)
  ELSE Ok([coins |-> [i \in DOMAIN data.json_array |-> CoinEntry(data.json_array[i])],
           count |-> Len(data.json_array)])
CategoryEntry(c) ==
  [id |-> Get(c, "id"), name |-> Get(c, "name"), market_cap |-> Get(c, "market_cap"),
   market_cap_change_24h |-> PercentField(c, "market_cap_change_24h"),
   volume_24h |-> Get(c, "volume_24h"), top_3_coins |-> Get(c, "top_3_coins")]
getCryptoCategories(in, data) ==
  IF IsNull(data) THEN Ok([categories |-> <<>>, count |-> 0])
  ELSE IF ~IsArray(data) THEN Throw(NotAFunction)
  ELSE LET kept == SliceTo(data.json_array, CategoriesCap)
       IN Ok([categories |-> [i \in DOMAIN kept |-> CategoryEntry(kept[i])],
              count |-> Len(kept)])
SectorCoinEntry(c) ==
  [rank |-> Get(c, "market_cap_rank"), id |-> Get(c, "id"),
   symbol |-> UpperField(c, "symbol"), name |-> Get(c, "name"),
   price_usd |-> Get(c, "current_price"), market_cap |-> Get(c, "market_cap"),
   price_change_24h |-> PercentField(c, "price_change_percentage_24h")]
getCryptoBySector(a, in, data) ==
  IF IsNull(data) THEN Ok([category |-> a, coins |-> <<>>, count |-> 0])
  ELSE IF ~IsArray(data) THEN Throw(NotAFunction)
  ELSE LET kept == SliceTo(data.json_array, SectorCoinsCap)
       IN Ok([category |-> a,
              coins |-> [i \in DOMAIN kept |-> SectorCoinEntry(kept[i])],
              count |-> Len(kept)])
ExchangeEntry(e) ==
  [rank |-> Get(e, "trust_score_rank"), id |-> Get(e, "id"), name |-> Get(e, "name"),
   trust_score |-> Get(e, "trust_score"),
   volume_24h_btc |-> Get(e, "trade_volume_24h_btc"),
   year_established |-> Get(e, "year_established"), country |-> Get(e, "country")]
getCryptoExchanges(in, data) ==
  IF IsNull(data) THEN Ok([exchanges |-> <<>>, count |-> 0])
  ELSE IF ~IsArray(data) THEN Throw(NotAFunction)
  ELSE Ok([exchanges |-> [i \in DOMAIN data.json_array |->
                            ExchangeEntry(data.json_array[i])],
           count |-> Len(data.json_array)])

(***************************************************************************)
(* get_crypto_fear_greed (defi.ts 585-607).  parseInt of a value that is   *)
(* not there is NaN, and a date made from NaN cannot be formatted.         *)
(***************************************************************************)
NaN == <<"NaN">>
parseInt(item, f) == IF f \in DOMAIN item THEN item[f] ELSE NaN
FearGreedEntry(item) ==
  [value |-> parseInt(item, "value"),
   classification |-> Get(item, "value_classification"),
   date |-> toISOString(item.timestamp)]
getCryptoFearGreed(in, data) ==
  IF "data" \notin DOMAIN data \/ data.data = <<>> THEN Throw(InvalidDate)
  ELSE IF \E i \in DOMAIN SliceTo(data.data, FearGreedHistory) :
            ~ValidDate(data.data[i], "timestamp")
    THEN Throw(InvalidDate)
  ELSE Ok([current |->
             [value |-> parseInt(data.data[1], "value"),
              classification |-> Get(data.data[1], "value_classification"),
              timestamp |-> toISOString(data.data[1].timestamp)],
           history |-> [i \in DOMAIN SliceTo(data.data, FearGreedHistory) |->
                          FearGreedEntry(data.data[i])]])

(***************************************************************************)
(* The body of each tool with one client call.                             *)
(***************************************************************************)
Reshape(t, a, in, data) ==
  IF t \in DereferencesData /\ IsNull(data) THEN Throw(NullDereference)
  ELSE CASE t = "get_top_defi_protocols" -> getTopDefiProtocols(in, data)
         [] t = "get_defi_protocol_detail" -> getDefiProtocolDetail(a, in, data)
         [] t = "get_chain_tvl_data" -> getChainTVLData(in, data)
         [] t = "get_chain_tvl_trend" -> getChainTVLTrend(a, in, data)
         [] t = "get_defi_yields" -> getDefiYields(in, data)
         [] t = "get_stablecoin_data" -> getStablecoinData(in, data)
         [] t = "get_dex_volume_data" -> getDexVolumeData(in, data)
         [] t = "search_crypto_tokens" -> searchCryptoTokens(a, in, data)
         [] t = "get_trending_crypto" -> getTrendingCrypto(in, data)
         [] t = "get_crypto_token_info" -> getCryptoTokenInfo(a, in, data)
         [] t = "get_crypto_price" -> getCryptoPrice(a, in, data)
         [] t = "get_crypto_ohlc" -> getCryptoOHLC(a, in, data)
         [] t = "get_crypto_price_history" -> getCryptoPriceHistory(a, in, data)
         [] t = "get_global_crypto_data" -> getGlobalCryptoData(in, data)
         [] t = "get_top_crypto_coins" -> getTopCryptoCoins(in, data)
         [] t = "get_crypto_fear_greed" -> getCryptoFearGreed(in, data)
         [] t = "get_crypto_categories" -> getCryptoCategories(in, data)
         [] t = "get_crypto_by_sector" -> getCryptoBySector(a, in, data)
         [] OTHER -> getCryptoExchanges(in, data)

(***************************************************************************)
(* A tool with one client call: the call's error leaves the tool as it is; *)
(* what the body throws leaves it too; otherwise the tool returns its      *)
(* payload with the URL of the call.                                       *)
(***************************************************************************)
\* A tool that swallows the client's error and returns an empty payload.
ToolBodyFallback(t, a, in, call) ==
  IF call.st = "rejected" THEN formatToolResult(NoData, <<call.url>>)
  ELSE IF Reshape(t, a, in, Envelope(call).data).threw
    THEN ToolFailure(Reshape(t, a, in, Envelope(call).data).err)
  ELSE formatToolResult(Reshape(t, a, in, Envelope(call).data).value,
                        <<Envelope(call).url>>)

\* A tool that returns its payload without the URL of its call.
ToolBodyNoSources(t, a, in, call) ==
  IF call.st = "rejected" THEN ToolFailure(call.err)
  ELSE IF Reshape(t, a, in, Envelope(call).data).threw
    THEN ToolFailure(Reshape(t, a, in, Envelope(call).data).err)
  ELSE formatToolResult(Reshape(t, a, in, Envelope(call).data).value, <<>>)

ToolBody(t, a, in, call) ==
  IF call.st = "rejected" THEN ToolFailure(call.err)
  ELSE IF Reshape(t, a, in, Envelope(call).data).threw
    THEN ToolFailure(Reshape(t, a, in, Envelope(call).data).err)
  ELSE formatToolResult(Reshape(t, a, in, Envelope(call).data).value,
                        <<Envelope(call).url>>)

(***************************************************************************)
(* The state machine: one tool invocation at a time, handed to the agent   *)
(* when it ends.                                                           *)
(***************************************************************************)
Init ==
  /\ pc = "idle"
  /\ tool = "none"
  /\ args = <<>>
  /\ input = NoInput
  /\ reqs = <<>>
  /\ net = <<>>
  /\ result = NoResult

\* A tool that looks the identifier up with a search before its own call.
InvokeToolAfterSearch(t, a, in) ==
  /\ pc = "idle"
  /\ pc' = "running"
  /\ tool' = t
  /\ args' = IF t \in ArgTools THEN <<a>> ELSE <<>>
  /\ input' = in
  /\ reqs' = <<fetchJson(ToolUrl(t, a, in)), fetchJson(searchTokensUrl(a))>>
  /\ net' = <<[call |-> 1, url |-> ToolUrl(t, a, in)],
              [call |-> 2, url |-> searchTokensUrl(a)]>>
  /\ UNCHANGED result

\* A tool that rejects an identifier with a character outside the unreserved
\* set before any request is made.
InvokeToolValidated(t, a, in) ==
  /\ pc = "idle"
  /\ tool' = t
  /\ args' = IF t \in ArgTools THEN <<a>> ELSE <<>>
  /\ input' = in
  /\ IF \E k \in DOMAIN a : a[k] \notin Unreserved
       THEN /\ pc' = "threw"
            /\ reqs' = <<>>
            /\ net' = <<>>
            /\ result' = ToolFailure([name |-> "ValidationError", message |-> a])
       ELSE /\ pc' = "running"
            /\ reqs' = <<fetchJson(ToolUrl(t, a, in))>>
            /\ net' = <<[call |-> 1, url |-> ToolUrl(t, a, in)]>>
            /\ UNCHANGED result

InvokeTool(t, a, in) ==
  /\ pc = "idle"
  /\ pc' = "running"
  /\ tool' = t
  /\ args' = IF t \in ArgTools THEN <<a>> ELSE <<>>
  /\ input' = in
  /\ reqs' = <<fetchJson(ToolUrl(t, a, in))>>
  /\ net' = <<[call |-> 1, url |-> ToolUrl(t, a, in)]>>
  /\ UNCHANGED result

InvokeCompare(protocols) ==
  /\ pc = "idle"
  /\ pc' = "running"
  /\ tool' = CompareTool
  /\ args' = protocols
  /\ input' = NoInput
  /\ reqs' = [i \in DOMAIN FanOutSlice(protocols) |->
                fetchJson(getProtocolTVLUrl(FanOutSlice(protocols)[i]))]
  /\ net' = [i \in DOMAIN FanOutSlice(protocols) |->
               [call |-> i, url |-> getProtocolTVLUrl(FanOutSlice(protocols)[i])]]
  /\ UNCHANGED result

FetchRejects(i) ==
  /\ pc = "running"
  /\ reqs[i].st = "inflight"
  /\ reqs' = [reqs EXCEPT ![i] = fetchRejected(@)]
  /\ UNCHANGED <<pc, tool, args, input, net, result>>

\* fetchJson with a retry: a 429 sends the request again.
FetchResolvesRetry(i, response) ==
  /\ pc = "running"
  /\ reqs[i].st = "inflight"
  /\ IF response.status = RateLimitStatus
       THEN /\ net' = Append(net, [call |-> i, url |-> reqs[i].url])
            /\ reqs' = reqs
       ELSE /\ reqs' = [reqs EXCEPT ![i] = checkResponse(@, response)]
            /\ net' = net
  /\ UNCHANGED <<pc, tool, args, input, result>>

FetchResolves(i, response) ==
  /\ pc = "running"
  /\ reqs[i].st = "inflight"
  /\ reqs' = [reqs EXCEPT ![i] = checkResponse(@, response)]
  /\ UNCHANGED <<pc, tool, args, input, net, result>>

JsonSettles(i, text) ==
  /\ pc = "running"
  /\ reqs[i].st = "parsing"
  /\ reqs' = [reqs EXCEPT ![i] = readJson(@, text)]
  /\ UNCHANGED <<pc, tool, args, input, net, result>>

ToolReturns ==
  /\ pc = "running"
  /\ tool \in SingleCallTools
  /\ Settled(reqs[1])
  /\ result' = ToolBody(tool, IF args = <<>> THEN <<>> ELSE args[1], input, reqs[1])
  /\ pc' = IF result'.kind = "ok" THEN "returned" ELSE "threw"
  /\ UNCHANGED <<tool, args, input, reqs, net>>

CompareReturns ==
  /\ pc = "running"
  /\ tool = CompareTool
  /\ CompareItems.st # "pending"
  /\ result' = IF CompareItems.st = "fulfilled"
                 THEN formatToolResult(
                        [comparison |-> [i \in DOMAIN CompareItems.value |->
                                           WithChange(CompareItems.value[i])]],
                        <<<<DEFILLAMA_BASE>>>>)
                 ELSE ToolFailure(CompareItems.err)
  /\ pc' = IF result'.kind = "ok" THEN "returned" ELSE "threw"
  /\ UNCHANGED <<tool, args, input, reqs, net>>

AgentTakesResult ==
  /\ pc \in {"returned", "threw"}
  /\ pc' = "idle"
  /\ tool' = "none"
  /\ args' = <<>>
  /\ input' = NoInput
  /\ reqs' = <<>>
  /\ net' = <<>>
  /\ result' = NoResult

Next ==
  \/ \E t \in NoArgTools : InvokeTool(t, <<>>, DefaultInput(t))
  \/ \E t \in ArgTools : \E a \in Identifiers : InvokeTool(t, a, DefaultInput(t))
  \/ \E protocols \in ProtocolLists : InvokeCompare(protocols)
  \/ \E i \in DOMAIN reqs : FetchRejects(i)
  \/ \E i \in DOMAIN reqs : \E response \in Responses : FetchResolves(i, response)
  \/ \E i \in DOMAIN reqs : \E text \in BodyTexts : JsonSettles(i, text)
  \/ ToolReturns
  \/ CompareReturns
  \/ AgentTakesResult

Spec == Init /\ [][Next]_vars

(***************************************************************************)
(* The same machine with every argument a tool's schema accepts and every  *)
(* document of ToolDocs, and with short comparison lists.                  *)
(***************************************************************************)
NextTools ==
  \/ \E t \in NoArgTools : \E in \in ToolInputs(t) : InvokeTool(t, <<>>, in)
  \/ \E t \in ArgTools : \E a \in Identifiers : \E in \in ToolInputs(t) :
       InvokeTool(t, a, in)
  \/ \E protocols \in { l \in ProtocolLists : Len(l) <= MaxCompared } :
       InvokeCompare(protocols)
  \/ \E i \in DOMAIN reqs : FetchRejects(i)
  \/ \E i \in DOMAIN reqs : \E response \in Responses : FetchResolves(i, response)
  \/ \E i \in DOMAIN reqs : \E text \in ToolTexts(tool) : JsonSettles(i, text)
  \/ ToolReturns
  \/ CompareReturns
  \/ AgentTakesResult

SpecTools == Init /\ [][NextTools]_vars

(***************************************************************************)
(* Two invocations at once.  The agent may start a tool while another is   *)
(* awaiting its response; each runs the same func on values of its own     *)
(* (input, data, url are parameters and consts of the call), and the       *)
(* module holds no binding that a call assigns.  Here every variable is a  *)
(* pair, one component per invocation in flight.                           *)
(***************************************************************************)
Slots == {1, 2}
PairTools == {"get_top_defi_protocols", "get_defi_protocol_detail"}
PairInputs(t) == { DefaultInput(t), [DefaultInput(t) EXCEPT !.limit = 2] }

InitPair ==
  /\ pc = [k \in Slots |-> "idle"]
  /\ tool = [k \in Slots |-> "none"]
  /\ args = [k \in Slots |-> <<>>]
  /\ input = [k \in Slots |-> NoInput]
  /\ reqs = [k \in Slots |-> <<>>]
  /\ net = [k \in Slots |-> <<>>]
  /\ result = [k \in Slots |-> NoResult]

SlotInvokes(k, t, a, in) ==
  /\ pc[k] = "idle"
  /\ pc' = [pc EXCEPT ![k] = "running"]
  /\ tool' = [tool EXCEPT ![k] = t]
  /\ args' = [args EXCEPT ![k] = IF t \in ArgTools THEN <<a>> ELSE <<>>]
  /\ input' = [input EXCEPT ![k] = in]
  /\ reqs' = [reqs EXCEPT ![k] = <<fetchJson(ToolUrl(t, a, in))>>]
  /\ net' = [net EXCEPT ![k] = <<[call |-> 1, url |-> ToolUrl(t, a, in)]>>]
  /\ UNCHANGED result

SlotFetchRejects(k) ==
  /\ pc[k] = "running"
  /\ reqs[k][1].st = "inflight"
  /\ reqs' = [reqs EXCEPT ![k][1] = fetchRejected(@)]
  /\ UNCHANGED <<pc, tool, args, input, net, result>>

SlotFetchResolves(k, response) ==
  /\ pc[k] = "running"
  /\ reqs[k][1].st = "inflight"
  /\ reqs' = [reqs EXCEPT ![k][1] = checkResponse(@, response)]
  /\ UNCHANGED <<pc, tool, args, input, net, result>>

SlotJsonSettles(k, text) ==
  /\ pc[k] = "running"
  /\ reqs[k][1].st = "parsing"
  /\ reqs' = [reqs EXCEPT ![k][1] = readJson(@, text)]
  /\ UNCHANGED <<pc, tool, args, input, net, result>>

SlotOutcome(k) ==
  ToolBody(tool[k], IF args[k] = <<>> THEN <<>> ELSE args[k][1], input[k], reqs[k][1])

\* A tool behind a shared in-flight guard: it fails when another invocation
\* is still running.
SlotReturnsGuarded(k) ==
  /\ pc[k] = "running"
  /\ Settled(reqs[k][1])
  /\ result' = [result EXCEPT ![k] =
                  IF \E j \in Slots \ {k} : pc[j] = "running"
                    THEN ToolFailure(RateLimitError) ELSE SlotOutcome(k)]
  /\ pc' = [pc EXCEPT ![k] = IF result'[k].kind = "ok" THEN "returned" ELSE "threw"]
  /\ UNCHANGED <<tool, args, input, reqs, net>>

SlotReturns(k) ==
  /\ pc[k] = "running"
  /\ Settled(reqs[k][1])
  /\ result' = [result EXCEPT ![k] = SlotOutcome(k)]
  /\ pc' = [pc EXCEPT ![k] = IF result'[k].kind = "ok" THEN "returned" ELSE "threw"]
  /\ UNCHANGED <<tool, args, input, reqs, net>>

SlotTaken(k) ==
  /\ pc[k] \in {"returned", "threw"}
  /\ pc' = [pc EXCEPT ![k] = "idle"]
  /\ tool' = [tool EXCEPT ![k] = "none"]
  /\ args' = [args EXCEPT ![k] = <<>>]
  /\ input' = [input EXCEPT ![k] = NoInput]
  /\ reqs' = [reqs EXCEPT ![k] = <<>>]
  /\ net' = [net EXCEPT ![k] = <<>>]
  /\ result' = [result EXCEPT ![k] = NoResult]

NextPair ==
  \/ \E k \in Slots : \E t \in PairTools : \E a \in Identifiers :
       \E in \in PairInputs(t) : SlotInvokes(k, t, a, in)
  \/ \E k \in Slots : SlotFetchRejects(k)
  \/ \E k \in Slots : \E response \in Responses : SlotFetchResolves(k, response)
  \/ \E k \in Slots : \E text \in ToolTexts(tool[k]) : SlotJsonSettles(k, text)
  \/ \E k \in Slots : SlotReturns(k)
  \/ \E k \in Slots : SlotTaken(k)

SpecPair == InitPair /\ [][NextPair]_vars

(***************************************************************************)
(* Properties.                                                             *)
(***************************************************************************)
Range(f) == { f[i] : i \in DOMAIN f }
Ended == pc \in {"returned", "threw"}
CompareEnded == tool = CompareTool /\ Ended
IsFailureEntry(e) == "error" \in DOMAIN e
IsDataEntry(e) == "error" \notin DOMAIN e /\ "current_tvl" \in DOMAIN e
\* The outcomes of one client call, read from the response it received.
RateLimited(call) == call.response.status = RateLimitStatus
UpstreamFailed(call) ==
  call.response # NoResponse /\ ~ResponseOk(call.response) /\ ~RateLimited(call)
TransportFailed(call) == call.st = "rejected" /\ call.response = NoResponse
GotDocument(call) ==
  ResponseOk(call.response) /\ call.st = "fulfilled" /\ ~IsNull(call.data)

\* C1: compare_defi_protocols never fails as a whole.  Whatever each item's
\* request came to, the call returns one entry per compared identifier, in
\* which an item that failed (429, another non-2xx, a transport failure, a
\* body that is no protocol document) is a failure entry named after the
\* requested identifier and an item that got its document is a data entry;
\* five identifiers of which one failed give four data entries and one
\* failure entry.
C1_CompareNeverFailsAsAWhole ==
  CompareEnded =>
    /\ pc = "returned"
    /\ result.kind = "ok"
    /\ Len(result.data.comparison) = Min(Len(args), FanOut)
    /\ \A i \in DOMAIN result.data.comparison :
         LET e == result.data.comparison[i] IN
           /\ (RateLimited(reqs[i]) \/ UpstreamFailed(reqs[i])
                 \/ TransportFailed(reqs[i]) \/ ~GotDocument(reqs[i]))
                => IsFailureEntry(e) /\ e.name = args[i]
           /\ GotDocument(reqs[i]) => IsDataEntry(e) /\ e.name = reqs[i].data.name
    /\ (Len(args) = 5
          /\ Cardinality({i \in DOMAIN reqs : ~GotDocument(reqs[i])}) = 1)
         => /\ Cardinality({i \in 1..5 : IsDataEntry(result.data.comparison[i])}) = 4
            /\ Cardinality({i \in 1..5 : IsFailureEntry(result.data.comparison[i])}) = 1

\* Five identifiers, one answered 404 and four answered with a document: the
\* call has returned four data entries and one failure entry.
C1_Witness ==
  /\ CompareEnded
  /\ Len(args) = 5
  /\ Cardinality({i \in DOMAIN reqs : reqs[i].response.status = 404}) = 1
  /\ Cardinality({i \in DOMAIN reqs : GotDocument(reqs[i])}) = 4
  /\ result.kind = "ok"
  /\ Cardinality({i \in 1..5 : IsFailureEntry(result.data.comparison[i])}) = 1

\* C2: compare_defi_protocols issues exactly min(len(protocols), 5) requests,
\* one for each of the first five identifiers and none for a later one.
C2_CompareIssuesAtMostFive ==
  (tool = CompareTool) =>
    /\ Len(net) <= 5
    /\ Len(net) = Min(Len(args), 5)
    /\ \A k \in DOMAIN net :
         net[k].url = <<DEFILLAMA_BASE, "/protocol/">> \o encodeURIComponent(args[k])
    /\ \A j \in DOMAIN args :
         j > 5 => \A k \in DOMAIN net :
                    net[k].url # <<DEFILLAMA_BASE, "/protocol/">>
                                   \o encodeURIComponent(args[j])

\* Six identifiers were passed, five requests are on the network log and the
\* call has returned.
C2_Witness ==
  /\ CompareEnded
  /\ Len(args) = 6
  /\ Len(net) = 5

\* C3: in compare_defi_protocols the result is composed only once every
\* issued request has settled, and a step that settles one request (as a
\* failure or not) leaves every other unsettled request in flight and the
\* tool running, so that each request succeeds or fails on its own.
C3_ComposedAfterAllSettled ==
  /\ [](CompareEnded =>
          /\ Len(reqs) = Min(Len(args), FanOut)
          /\ \A i \in DOMAIN reqs : Settled(reqs[i]))
  /\ [][(tool = CompareTool /\ pc = "running") =>
          \A i \in DOMAIN reqs :
            ~Settled(reqs[i]) =>
              /\ pc' = "running"
              /\ i \in DOMAIN reqs'
              /\ reqs'[i] # reqs[i] =>
                   \A j \in DOMAIN reqs : j # i => reqs'[j] = reqs[j]
              /\ reqs'[i] = reqs[i] \/ reqs[i].st = "inflight" \/ reqs[i].st = "parsing"]_vars

\* Five requests were issued, two of them were rejected and two got a body,
\* and the call has returned a result with all five settled.
C3_Witness ==
  /\ CompareEnded
  /\ Len(reqs) = 5
  /\ reqs[1].st = "rejected"
  /\ reqs[2].st = "fulfilled"
  /\ reqs[3].st = "rejected"
  /\ reqs[5].st = "fulfilled"
  /\ result.kind = "ok"

\* C4: a call answered 429 fails with the rate-limit error, whose message
\* asks to wait and try again; no call answered with another status fails
\* with that error, and no call answered 429 fails with the generic one or
\* returns data.
C4_RateLimitedOn429 ==
  \A i \in DOMAIN reqs :
    /\ RateLimited(reqs[i]) =>
         /\ reqs[i].st = "rejected"
         /\ reqs[i].data = NoData
         /\ reqs[i].err.name = "Error"
         /\ reqs[i].err.message =
              <<"Rate limited by API. Please wait a moment and try again.">>
         /\ Head(reqs[i].err.message) # "API request failed: "
    /\ (reqs[i].st = "rejected" /\ ~RateLimited(reqs[i])) =>
         reqs[i].err.message #
           <<"Rate limited by API. Please wait a moment and try again.">>

\* A call of a single-call tool was answered 429 and has been rejected.
C4_Witness ==
  /\ tool \in SingleCallTools
  /\ Len(reqs) = 1
  /\ reqs[1].response.status = 429
  /\ reqs[1].st = "rejected"

\* C5: a call answered with a non-2xx status other than 429 fails with the
\* generic error, whose message carries the status code and the status text
\* of the response, and returns no data.
C5_UpstreamErrorCarriesStatus ==
  \A i \in DOMAIN reqs :
    UpstreamFailed(reqs[i]) =>
      /\ reqs[i].st = "rejected"
      /\ reqs[i].data = NoData
      /\ reqs[i].err.name = "Error"
      /\ Head(reqs[i].err.message) = "API request failed: "
      /\ ToString(reqs[i].response.status) \in Range(Tail(reqs[i].err.message))
      /\ reqs[i].response.statusText \in Range(Tail(reqs[i].err.message))

\* A call was answered 404 Not Found and has been rejected.
C5_Witness ==
  \E i \in DOMAIN reqs :
    /\ reqs[i].response.status = 404
    /\ reqs[i].response.statusText = "Not Found"
    /\ reqs[i].st = "rejected"

\* C6: a call whose transport failed before any response fails with the
\* rejection of fetch, which is neither the rate-limit error nor a generic
\* error of any status, and returns no data.
C6_NetworkErrorOnTransportFailure ==
  \A i \in DOMAIN reqs :
    TransportFailed(reqs[i]) =>
      /\ reqs[i].data = NoData
      /\ reqs[i].err # NoError
      /\ reqs[i].err.name = "TypeError"
      /\ reqs[i].err.message #
           <<"Rate limited by API. Please wait a moment and try again.">>
      /\ Head(reqs[i].err.message) # "API request failed: "

\* A call was rejected without any response having been received.
C6_Witness ==
  \E i \in DOMAIN reqs :
    /\ reqs[i].st = "rejected"
    /\ reqs[i].response = NoResponse
    /\ reqs[i].err = FetchRejection

\* C7 as stated: every call answered 2xx returns an envelope {data, url}
\* with the parsed body and the URL of the request, and only such calls do.
C7_EnvelopeOnEvery2xx ==
  \A i \in DOMAIN reqs :
    /\ (ResponseOk(reqs[i].response) /\ Settled(reqs[i])) =>
         /\ reqs[i].st = "fulfilled"
         /\ Envelope(reqs[i]).url = net[i].url
    /\ reqs[i].st = "fulfilled" => ResponseOk(reqs[i].response)

\* C7, amended: a call answered 2xx whose body parses as JSON returns an
\* envelope {data, url} in which data is the parsed body and url is the URL
\* the request was sent to; a call answered 2xx whose body does not parse
\* fails with the parser's error and returns no envelope; a call returns an
\* envelope only on 2xx.
C7_EnvelopeOnParsed2xx ==
  \A i \in DOMAIN reqs :
    /\ (ResponseOk(reqs[i].response) /\ Settled(reqs[i]) /\ reqs[i].body.valid) =>
         /\ reqs[i].st = "fulfilled"
         /\ Envelope(reqs[i]).data = reqs[i].body.value
         /\ Envelope(reqs[i]).url = net[i].url
         /\ net[i].call = i
    /\ (ResponseOk(reqs[i].response) /\ Settled(reqs[i]) /\ ~reqs[i].body.valid) =>
         /\ reqs[i].st = "rejected"
         /\ reqs[i].err.name = "SyntaxError"
         /\ reqs[i].data = NoData
    /\ reqs[i].st = "fulfilled" =>
         /\ ResponseOk(reqs[i].response)
         /\ reqs[i].body.valid
         /\ reqs[i].data # NoData

\* A call answered 200 with a protocol document has returned its envelope.
C7_Witness ==
  \E i \in DOMAIN reqs :
    /\ reqs[i].response.status = 200
    /\ reqs[i].st = "fulfilled"
    /\ Envelope(reqs[i]).data = ProtocolDoc
    /\ Envelope(reqs[i]).url = net[i].url

\* C8: every client call makes exactly one request, whatever its outcome:
\* after a 429, another non-2xx status or a transport failure no second
\* request is on the network log for that call.
C8_OneAttemptPerCall ==
  /\ Len(net) = Len(reqs)
  /\ \A i \in DOMAIN reqs :
       /\ Cardinality({k \in DOMAIN net : net[k].call = i}) = 1
       /\ \A k \in DOMAIN net : net[k].call = i => net[k].url = reqs[i].url
  /\ \A k \in DOMAIN net : net[k].call \in DOMAIN reqs

\* A tool has ended after its call was answered 429, with one request on the
\* network log.
C8_Witness ==
  /\ Ended
  /\ Len(reqs) = 1
  /\ RateLimited(reqs[1])
  /\ reqs[1].st = "rejected"
  /\ Len(net) = 1

\* C9: every tool other than compare_defi_protocols performs exactly one
\* network call per invocation, for every argument and every outcome.
C9_SingleCallToolsCallOnce ==
  (tool \in SingleCallTools) =>
    /\ Len(net) = 1
    /\ Len(reqs) = 1
    /\ net[1].url = reqs[1].url
    /\ Ended => Len(net) = 1 /\ Settled(reqs[1])

\* A tool that takes an identifier has failed after a transport failure, with
\* one request made.
C9_Witness ==
  /\ tool \in ArgTools
  /\ pc = "threw"
  /\ TransportFailed(reqs[1])
  /\ Len(net) = 1

\* C10 as stated: whenever a client call made inside a tool has failed, the
\* tool call ends as a failed tool call with that error.
C10_EveryClientErrorPropagates ==
  Ended =>
    \A i \in DOMAIN reqs :
      reqs[i].st = "rejected" =>
        /\ pc = "threw"
        /\ result.kind = "error"
        /\ result.err = reqs[i].err

\* C10, amended: in every tool other than compare_defi_protocols an error
\* raised by the client call ends the tool call as a failed tool call with
\* that same error and no payload; compare_defi_protocols catches the error
\* of each item and returns a result in which that item is a failure entry.
C10_ClientErrorPropagatesExceptCompare ==
  Ended =>
    /\ tool \in SingleCallTools =>
         (reqs[1].st = "rejected" =>
            /\ pc = "threw"
            /\ result.kind = "error"
            /\ result.err = reqs[1].err
            /\ "data" \notin DOMAIN result)
    /\ tool = CompareTool =>
         \A i \in DOMAIN reqs :
           reqs[i].st = "rejected" =>
             /\ pc = "returned"
             /\ result.kind = "ok"
             /\ IsFailureEntry(result.data.comparison[i])

\* A single-call tool has ended as a failed tool call with the rate-limit
\* error of its client call.
C10_Witness ==
  /\ tool \in SingleCallTools
  /\ pc = "threw"
  /\ RateLimited(reqs[1])
  /\ result.kind = "error"
  /\ result.err = RateLimitError

Returned == pc = "returned"
\* part_001 50-95: the DeFi tools use DefiLlama, the market tools CoinGecko.
DefiTools == {"get_top_defi_protocols", "get_defi_protocol_detail",
              "get_chain_tvl_data", "get_chain_tvl_trend", "get_defi_yields",
              "get_stablecoin_data", "get_dex_volume_data", CompareTool}
ProviderBase(t) == IF t \in DefiTools THEN DEFILLAMA_BASE ELSE COINGECKO_BASE
FearGreedUrl == Head(ToolUrl("get_crypto_fear_greed", <<>>, NoInput))
StablecoinsUrl == Head(ToolUrl("get_stablecoin_data", <<>>, NoInput))

\* C11 as stated: every tool's successful call returns a source-URL list that
\* is not empty and whose every URL starts with the base URL of the provider
\* the tool uses, the CoinGecko base or the DefiLlama base.
C11_EverySourceOnProviderBase ==
  Returned =>
    /\ result.sourceUrls # <<>>
    /\ \A i \in DOMAIN result.sourceUrls :
         Head(result.sourceUrls[i]) = ProviderBase(tool)

\* C11 amended: the list is never empty, and every URL starts with the base
\* of the tool's provider for eighteen tools; get_crypto_fear_greed reports
\* the alternative.me URL and get_stablecoin_data the stablecoins.llama.fi
\* URL, neither of which starts with one of the two bases.
C11_SourceOnProviderBaseButTwoTools ==
  Returned =>
    /\ result.sourceUrls # <<>>
    /\ \A i \in DOMAIN result.sourceUrls :
         Head(result.sourceUrls[i]) =
           (CASE tool = "get_crypto_fear_greed" -> FearGreedUrl
              [] tool = "get_stablecoin_data" -> StablecoinsUrl
              [] OTHER -> ProviderBase(tool))
    /\ FearGreedUrl \notin {COINGECKO_BASE, DEFILLAMA_BASE}
    /\ StablecoinsUrl \notin {COINGECKO_BASE, DEFILLAMA_BASE}
\* get_stablecoin_data has returned a list of stablecoins with its source URL.
C11_Witness ==
  /\ Returned
  /\ tool = "get_stablecoin_data"
  /\ result.data.count > 0
  /\ Len(result.sourceUrls) = 1

\* C12 as stated: the source-URL list of a successful call is exactly the URLs
\* of the requests issued in that invocation, in order: one for a tool with
\* one client call, one per compared item for compare_defi_protocols.
C12_SourcesAreTheRequestUrls ==
  Returned => result.sourceUrls = [i \in DOMAIN net |-> net[i].url]

\* The percentage-change fields of the payload a tool has returned.
Entries(d, f) == IF f \in DOMAIN d THEN Range(d[f]) ELSE {}
PercentChangeFields ==
  LET d == result.data
  IN CASE tool = "get_top_defi_protocols" ->
            UNION { {e.tvl_change_1d, e.tvl_change_7d, e.tvl_change_1m} :
                      e \in Entries(d, "protocols") }
       [] tool = "get_chain_tvl_trend" -> {d.change_90d}
       [] tool = "get_dex_volume_data" ->
            { e.change_24h : e \in Entries(d, "protocols") }
       [] tool = CompareTool -> { e.tvl_change_30d : e \in Entries(d, "comparison") }
       [] tool = "get_crypto_price_history" -> {d.price_change}
       [] tool = "get_global_crypto_data" -> {d.market_cap_change_24h}
       [] tool = "get_top_crypto_coins" ->
            UNION { {e.price_change_1h, e.price_change_24h, e.price_change_7d,
                     e.price_change_30d, e.ath_change} : e \in Entries(d, "coins") }
       [] tool = "get_crypto_categories" ->
            { e.market_cap_change_24h : e \in Entries(d, "categories") }
       [] tool = "get_crypto_by_sector" ->
            { e.price_change_24h : e \in Entries(d, "coins") }
       [] OTHER -> {}
Malformed == { Undefined \o <<"%">>, <<"NaN", "%">>, <<"Infinity", "%">>,
               <<"-Infinity", "%">>, JsNull }
WellFormedPercent(s) ==
  s = NotAvailable \/ (s # <<>> /\ s[Len(s)] = "%" /\ s \notin Malformed)

\* C13 as stated: every percentage-change field of every returned payload is
\* a string that ends in '%' or is exactly 'N/A'; it is never null,
\* 'undefined%', 'NaN%' or 'Infinity%'.
C13_PercentFieldsWellFormed ==
  Returned => \A s \in PercentChangeFields : WellFormedPercent(s)

\* The first price of the series a price history was computed from is zero
\* or not there.
NoPriceBaseline(d) ==
  \/ "prices" \notin DOMAIN d
  \/ d.prices = <<>>
  \/ Len(d.prices[1]) < 2
  \/ d.prices[1][2] = 0

\* C14 as stated: each percentage change that divides by a baseline (change_90d
\* of get_chain_tvl_trend, tvl_change_30d of compare_defi_protocols,
\* price_change of get_crypto_price_history) looks at the baseline first and
\* is 'N/A' when the baseline is zero or missing.
C14_NotAvailableOnZeroBaseline ==
  Returned =>
    /\ tool = "get_chain_tvl_trend" /\ result.data.tvl_90d_ago = 0
         => result.data.change_90d = NotAvailable
    /\ tool = CompareTool
         => \A e \in Range(result.data.comparison) :
              IsDataEntry(e) /\ e.tvl_30d_ago = 0 => e.tvl_change_30d = NotAvailable
    /\ tool = "get_crypto_price_history" /\ NoPriceBaseline(reqs[1].data)
         => result.data.price_change = NotAvailable

\* C15 as stated: a 2xx body that parses but lacks a field the tool reads (a
\* scalar, a nested object such as the data object of /global, the data list
\* of the fear and greed index, the top-level list itself) still gives a
\* successful result; the tool never fails on it.
C15_MissingFieldsNeverFail ==
  /\ Ended
  /\ tool \in SingleCallTools
  /\ reqs[1].st = "fulfilled"
  /\ ~IsNull(reqs[1].data)
  => Returned

\* The tools that sort and slice, the list each received, the list each
\* returned, and the key each sorts by (defi.ts 53, 132, 214, 245, 274).
SortingTools == {"get_top_defi_protocols", "get_chain_tvl_data", "get_defi_yields",
                 "get_stablecoin_data", "get_dex_volume_data"}
UpstreamList ==
  CASE tool = "get_defi_yields" -> reqs[1].data.data
    [] tool = "get_stablecoin_data" -> reqs[1].data.peggedAssets
    [] tool = "get_dex_volume_data" -> reqs[1].data.protocols
    [] OTHER -> reqs[1].data.json_array
ListField ==
  CASE tool = "get_chain_tvl_data" -> "chains"
    [] tool = "get_defi_yields" -> "pools"
    [] tool = "get_stablecoin_data" -> "stablecoins"
    [] OTHER -> "protocols"
OutputList == IF ListField \in DOMAIN result.data THEN result.data[ListField] ELSE <<>>
IdField == IF tool = "get_defi_yields" THEN "pool" ELSE "name"
SortKey(u) ==
  CASE tool = "get_defi_yields" -> OrZero(u, "apy")
    [] tool = "get_stablecoin_data" -> Circulating(u)
    [] tool = "get_dex_volume_data" -> OrZero(u, "total24h")
    [] OTHER -> OrZero(u, "tvl")
KeyMissing(u) ==
  CASE tool = "get_defi_yields" -> "apy" \notin DOMAIN u
    [] tool = "get_stablecoin_data" ->
         "circulating" \notin DOMAIN u \/ "peggedUSD" \notin DOMAIN u.circulating
    [] tool = "get_dex_volume_data" -> "total24h" \notin DOMAIN u
    [] OTHER -> "tvl" \notin DOMAIN u
\* The item of the received list an entry of the returned list was made from.
Origin(e) == CHOOSE u \in Range(UpstreamList) : u[IdField] = e[IdField]

\* C16: the sorting tools (get_top_defi_protocols and get_chain_tvl_data by
\* TVL, get_defi_yields by APY, get_stablecoin_data by circulating USD,
\* get_dex_volume_data by 24h volume) return their entries with the sort
\* key not increasing from one entry to the next, an entry whose key the
\* provider left out counting as 0.
C16_EntriesInDescendingKeyOrder ==
  Returned /\ tool \in SortingTools =>
    \A i \in 1..(Len(OutputList) - 1) :
      SortKey(Origin(OutputList[i])) >= SortKey(Origin(OutputList[i + 1]))
\* A sorting tool has returned entries with different keys, one of them
\* without a key, from a list that was not sent in that order.
C16_Witness ==
  /\ Returned
  /\ tool = "get_defi_yields"
  /\ Len(OutputList) >= 3
  /\ \E i \in DOMAIN OutputList : KeyMissing(Origin(OutputList[i]))
  /\ SortKey(Origin(OutputList[1])) > SortKey(Origin(OutputList[Len(OutputList)]))
  /\ \E i \in 1..(Len(UpstreamList) - 1) :
       SortKey(UpstreamList[i]) < SortKey(UpstreamList[i + 1])

\* C17 as stated: get_top_defi_protocols and get_defi_yields never return
\* more entries than the limit asked for, whatever number the limit is (0 and
\* negative numbers included), and the fixed caps (30 chains, 20 stablecoins,
\* 20 DEXes, 30 categories, 25 coins of a sector, 10 coins of a search) are
\* never exceeded.
C17_NeverMoreThanTheLimit ==
  Returned =>
    /\ tool \in {"get_top_defi_protocols", "get_defi_yields"}
         => Len(OutputList) <= input.limit
    /\ tool = "get_chain_tvl_data" => Len(OutputList) <= ChainsCap
    /\ tool = "get_stablecoin_data" => Len(OutputList) <= StablecoinsCap
    /\ tool = "get_dex_volume_data" => Len(OutputList) <= DexesCap
    /\ tool = "get_crypto_categories" => Len(result.data.categories) <= CategoriesCap
    /\ tool = "get_crypto_by_sector" => Len(result.data.coins) <= SectorCoinsCap
    /\ tool = "search_crypto_tokens" => Len(result.data.coins) <= SearchCoinsCap

\* The value of per_page in the URL a tool has requested: what stands
\* between the chunk before it and the chunk after it.
IndexOf(url, chunk) == CHOOSE i \in DOMAIN url : url[i] = chunk
Requested == net # <<>>
TopCoinsPerPageSent ==
  SubSeq(net[1].url, IndexOf(net[1].url, "&per_page=") + 1,
         IndexOf(net[1].url, "&page=") - 1)
ExchangesPerPageSent ==
  SubSeq(net[1].url, IndexOf(net[1].url, "/exchanges?per_page=") + 1, Len(net[1].url))

\* C18: the per_page the provider is asked for is min(limit, 100) for
\* get_top_crypto_coins and min(limit, 50) for get_crypto_exchanges.
C18_PerPageIsTheClampedLimit ==
  /\ Requested /\ tool = "get_top_crypto_coins"
       => TopCoinsPerPageSent = NumberToString(Min(input.limit, 100))
  /\ Requested /\ tool = "get_crypto_exchanges"
       => ExchangesPerPageSent = NumberToString(Min(input.limit, 50))
\* get_top_crypto_coins was asked for 101 coins and has requested 100.
C18_Witness ==
  /\ Requested
  /\ tool = "get_top_crypto_coins"
  /\ input.limit = 101
  /\ TopCoinsPerPageSent = <<"1", "0", "0">>

\* C19 as stated: get_trending_crypto returns at most 7 entries whatever the
\* provider sent, each with an id, a name, an upper-case symbol and a score.
C19_AtMostSevenTrending ==
  Returned /\ tool = "get_trending_crypto" =>
    /\ Len(result.data.trending_coins) <= TrendingCount
    /\ \A i \in DOMAIN result.data.trending_coins :
         /\ "item" \in DOMAIN reqs[1].data.coins[i]
         /\ {"id", "name", "symbol", "score"} \subseteq DOMAIN reqs[1].data.coins[i].item
         /\ result.data.trending_coins[i].symbol
              = toUpperCase(reqs[1].data.coins[i].item.symbol)

\* The characters of a caller's value that must not stand in a URL as they
\* are.  The fixed parts of a URL are whole chunks, never one of these.
ReservedChars == {"/", " ", "?", "&", "=", ","}

\* C20 as stated: every value the caller supplies that is put in a URL path
\* or query (token id, id list, vs_currency, days, query, slug, chain,
\* category id, limit and page) is percent-encoded, so that none of its
\* reserved characters stands in the URL as it is.
C20_CallerValuesAreEncoded ==
  \A i \in DOMAIN net : \A k \in DOMAIN net[i].url :
    net[i].url[k] \notin ReservedChars

NotFound(call) == call.response.status = 404

\* C21 as stated: no tool that takes an identifier rejects it before the
\* request; the request is issued with that identifier, and a 404 from the
\* provider ends the tool call as a failed call with the upstream error.
C21_NotFoundFailsEveryIdentifierTool ==
  tool \in ArgTools \cup {CompareTool} /\ Ended =>
    /\ \A i \in DOMAIN FanOutSlice(args) :
         i \in DOMAIN net /\ includes(net[i].url, encodeURIComponent(args[i]))
    /\ \A i \in DOMAIN reqs :
         NotFound(reqs[i]) =>
           pc = "threw" /\ result.err = ApiFailedError(reqs[i].response)

\* C21 amended: no tool rejects an identifier before the request, and the
\* request is issued with the identifier, encoded; in a tool with one client
\* call the provider's 404 ends the call as a failed call with the upstream
\* error, while compare_defi_protocols returns a result in which the entry
\* of the identifier answered 404 is a failure entry.
C21_NotFoundFailsSingleCallTools ==
  tool \in ArgTools \cup {CompareTool} /\ Ended =>
    /\ \A i \in DOMAIN FanOutSlice(args) :
         i \in DOMAIN net /\ includes(net[i].url, encodeURIComponent(args[i]))
    /\ tool \in ArgTools /\ NotFound(reqs[1]) =>
         /\ pc = "threw"
         /\ result.err = ApiFailedError(reqs[1].response)
         /\ "404" \in Range(result.err.message)
    /\ tool = CompareTool =>
         \A i \in DOMAIN reqs :
           NotFound(reqs[i]) =>
             /\ pc = "returned"
             /\ result.data.comparison[i].name = args[i]
             /\ IsFailureEntry(result.data.comparison[i])
\* get_defi_protocol_detail was given an identifier with a slash, the request
\* was answered 404 and the tool call has failed.
C21_Witness ==
  /\ tool = "get_defi_protocol_detail"
  /\ pc = "threw"
  /\ args = <<SlugAt(2)>>
  /\ NotFound(reqs[1])
  /\ result.err = ApiFailedError(reqs[1].response)

\* Two invocations were given equal arguments and their requests equal
\* answers.
SlotEnded(k) == pc[k] \in {"returned", "threw"}
SameAnswer(c, d) == c.response = d.response /\ c.body = d.body
EqualInvocations ==
  /\ SlotEnded(1) /\ SlotEnded(2)
  /\ tool[1] = tool[2] /\ args[1] = args[2] /\ input[1] = input[2]
  /\ SameAnswer(reqs[1][1], reqs[2][1])

IsText(s) == s # Undefined
OnGivenChain(u, chain) ==
  \/ "chain" \in DOMAIN u /\ toLowerCase(u.chain) = toLowerCase(chain)
  \/ "chains" \in DOMAIN u
       /\ toLowerCase(chain) \in { toLowerCase(c) : c \in Range(u.chains) }
Contains(text, part) == IsText(text) /\ includes(toLowerCase(text), toLowerCase(part))

\* C23: every entry of a filtered result satisfies every filter the caller
\* gave.  A protocol is on the given chain (by its chain or its chain list,
\* compared without case) and its category contains the given category; a
\* pool is on the given chain, its project contains the given project, its
\* TVL is at least min_tvl and it is a stablecoin pool when stablecoin_only.
C23_EntriesSatisfyEveryFilter ==
  /\ Returned /\ tool = "get_top_defi_protocols" =>
       \A e \in Entries(result.data, "protocols") :
         /\ input.chain # <<>> => OnGivenChain(Origin(e), input.chain)
         /\ input.category # <<>> => Contains(e.category, input.category)
  /\ Returned /\ tool = "get_defi_yields" =>
       \A e \in Entries(result.data, "pools") :
         /\ input.chain # <<>> =>
              IsText(e.chain) /\ toLowerCase(e.chain) = toLowerCase(input.chain)
         /\ input.project # <<>> => Contains(e.project, input.project)
         /\ input.min_tvl # 0 =>
              "tvlUsd" \in DOMAIN Origin(e) /\ e.tvl_usd >= input.min_tvl
         /\ input.stablecoin_only =>
              "stablecoin" \in DOMAIN Origin(e) /\ e.stablecoin = TRUE
\* A chain and a category were given, some protocols passed and others of
\* the upstream list were filtered out.
C23_Witness ==
  /\ Returned /\ tool = "get_top_defi_protocols"
  /\ input.chain # <<>> /\ input.category # <<>>
  /\ Entries(result.data, "protocols") # {}
  /\ input.limit > Len(result.data.protocols)
  /\ Len(UpstreamList) > Len(result.data.protocols)

\* The text of h hundredths with its sign, two decimals and '%'.
TwoDecimalPercent(negative, h) ==
  (IF negative THEN <<"-">> ELSE <<>>)
    \o DigitsOf(h \div 100)
    \o <<".", DigitChar((h % 100) \div 10), DigitChar(h % 10), "%">>
\* s is x (in ten-thousandths) rounded to a nearest hundredth, then '%'.
RoundedPercent(x, s) ==
  \E h \in {Abs(x) \div 100, Abs(x) \div 100 + 1} :
    /\ 2 * Abs(100 * h - Abs(x)) <= 100
    /\ s = TwoDecimalPercent(x < 0, h)
GlobalData == reqs[1].data.data

\* C24: get_global_crypto_data renders btc_dominance, eth_dominance and
\* market_cap_change_24h as the upstream number rounded to two decimals and
\* followed by '%': 54.3189 gives "54.32%".
C24_DominanceRoundedToTwoDecimals ==
  Returned /\ tool = "get_global_crypto_data" =>
    /\ \A g \in {"btc", "eth"} \cap
                 (IF "market_cap_percentage" \in DOMAIN GlobalData
                    THEN DOMAIN GlobalData.market_cap_percentage ELSE {}) :
         RoundedPercent(GlobalData.market_cap_percentage[g],
                        result.data[g \o "_dominance"])
    /\ "market_cap_change_percentage_24h_usd" \in DOMAIN GlobalData =>
         RoundedPercent(GlobalData.market_cap_change_percentage_24h_usd,
                        result.data.market_cap_change_24h)
    /\ "market_cap_percentage" \in DOMAIN GlobalData
         /\ "btc" \in DOMAIN GlobalData.market_cap_percentage
         /\ GlobalData.market_cap_percentage.btc = 543189 =>
           result.data.btc_dominance = <<"5", "4", ".", "3", "2", "%">>
\* The provider reported a BTC share of 54.3189 and a negative 24h change.
C24_Witness ==
  /\ Returned /\ tool = "get_global_crypto_data"
  /\ "market_cap_percentage" \in DOMAIN GlobalData
  /\ "btc" \in DOMAIN GlobalData.market_cap_percentage
  /\ GlobalData.market_cap_percentage.btc = 543189
  /\ result.data.btc_dominance = <<"5", "4", ".", "3", "2", "%">>
  /\ result.data.market_cap_change_24h = <<"-", "1", ".", "2", "3", "%">>

\* C25: the comparison list keeps the order of the identifiers however the
\* requests complete: entry i is the outcome of the i-th of the first five
\* identifiers, the entry built from the document of request i or the
\* failure entry naming identifier i.
C25_ComparisonKeepsInputOrder ==
  CompareEnded =>
    /\ pc = "returned"
    /\ Len(result.data.comparison) = Min(Len(args), FanOut)
    /\ \A i \in DOMAIN result.data.comparison :
         /\ net[i].url = getProtocolTVLUrl(args[i])
         /\ IF GotDocument(reqs[i])
              THEN result.data.comparison[i] = WithChange(ProtocolEntry(reqs[i].data))
              ELSE result.data.comparison[i] = WithChange(FailureEntry(args[i]))
\* Of five requests the second and the fourth failed and the others got
\* documents of two kinds; the entries stand in the order of the identifiers.
C25_Witness ==
  /\ CompareEnded /\ pc = "returned"
  /\ Len(args) > FanOut
  /\ Len(result.data.comparison) = FanOut
  /\ reqs[1].data = SparseDoc
  /\ reqs[2].st = "rejected"
  /\ reqs[3].data = ProtocolDoc
  /\ reqs[4].st = "rejected"
  /\ IsDataEntry(result.data.comparison[1])
  /\ result.data.comparison[2].name = args[2]
  /\ IsDataEntry(result.data.comparison[3])
  /\ result.data.comparison[4].name = args[4]

\* The items of the received list that pass every filter the caller gave.
PassesFilters(u) ==
  IF tool = "get_defi_yields"
    THEN /\ input.chain # <<>> =>
              "chain" \in DOMAIN u /\ toLowerCase(u.chain) = toLowerCase(input.chain)
         /\ input.project # <<>> =>
              "project" \in DOMAIN u /\ Contains(u.project, input.project)
         /\ input.min_tvl # 0 => "tvlUsd" \in DOMAIN u /\ u.tvlUsd >= input.min_tvl
         /\ input.stablecoin_only => "stablecoin" \in DOMAIN u /\ u.stablecoin
    ELSE /\ input.chain # <<>> => OnGivenChain(u, input.chain)
         /\ input.category # <<>> =>
              "category" \in DOMAIN u /\ Contains(u.category, input.category)
ReceivedList ==
  IF tool = "get_defi_yields" /\ "data" \notin DOMAIN reqs[1].data THEN <<>>
  ELSE UpstreamList
Passing == { u \in Range(ReceivedList) : PassesFilters(u) }
Included == { Origin(OutputList[i]) : i \in DOMAIN OutputList }
LimitedTools == {"get_top_defi_protocols", "get_defi_yields"}

\* C26 as stated: get_top_defi_protocols and get_defi_yields filter, then
\* sort, then slice: the result is the first `limit` entries of the filtered
\* list in descending key order.  It has min(limit, passing) entries, all of
\* them passing, no passing entry left out has a key greater than an entry
\* that is in, and all passing entries are in when fewer than `limit` pass.
C26_FirstLimitOfTheFilteredList ==
  Returned /\ tool \in LimitedTools =>
    /\ Len(OutputList) = Cardinality((1..input.limit) \cap (1..Cardinality(Passing)))
    /\ Cardinality(Included) = Len(OutputList)
    /\ Included \subseteq Passing
    /\ \A u \in Passing \ Included :
         \A v \in Included : SortKey(u) <= SortKey(v)
    /\ Cardinality(Passing) < input.limit => Included = Passing

\* The price series received by get_crypto_price_history.
PriceSeries ==
  IF "prices" \in DOMAIN reqs[1].data THEN reqs[1].data.prices ELSE <<>>
\* ceil(n / 20) for n >= 1: the least c with 20 c >= n.
CeilOfTwentieth(n) == CHOOSE c \in 1..n : 20 * c >= n /\ 20 * (c - 1) < n
HistoryReturned == Returned /\ tool = "get_crypto_price_history"

\* C27: get_crypto_price_history samples the points at the indices i
\* (counted from 0) with i mod ceil(n / 20) = 0.  For n >= 1 the sample
\* starts with the first point and has 1 to 20 entries in the original
\* order; for n = 0 the sample is empty and the call succeeds; data_points
\* is n.
C27_SampleEveryCeilTwentieth ==
  /\ HistoryReturned =>
       LET n == Len(PriceSeries)
           s == result.data.sampled_prices
       IN /\ result.data.data_points = n
          /\ n = 0 => s = <<>>
          /\ n >= 1 =>
               /\ Len(s) \in 1..20
               /\ Len(s) = Cardinality({ i \in 0..(n - 1) : i % CeilOfTwentieth(n) = 0 })
               /\ s[1] = PricePoint(PriceSeries[1])
               /\ \A k \in DOMAIN s :
                    s[k] = PricePoint(PriceSeries[(k - 1) * CeilOfTwentieth(n) + 1])
  /\ tool = "get_crypto_price_history" /\ Ended /\ GotDocument(reqs[1])
       /\ PriceSeries = <<>> => pc = "returned"
\* A series of 41 points was sampled at every third point: 14 entries, the
\* last of them the 40th point.
C27_Witness ==
  /\ HistoryReturned
  /\ Len(PriceSeries) = 2 * SampleTarget + 1
  /\ Len(result.data.sampled_prices) = 14
  /\ result.data.sampled_prices[14] = PricePoint(PriceSeries[40])
  /\ result.data.data_points = 41

\* s is the change from first to last in percent of first (first > 0),
\* rounded to a nearest hundredth, then '%'.
ChangeBetween(first, last, s) ==
  \E h \in {(Abs(last - first) * 10000) \div first,
            (Abs(last - first) * 10000) \div first + 1} :
    /\ 2 * Abs(h * first - Abs(last - first) * 10000) <= first
    /\ s = TwoDecimalPercent(last < first, h)

\* C28: get_crypto_price_history degrades on a short series and does not
\* fail.  Without a point first_price, last_price and price_change are null;
\* with one point first_price and last_price are that point and
\* price_change is null; with two points or more price_change is computed,
\* from the first and the last point.
C28_ShortSeriesDegrade ==
  /\ HistoryReturned =>
       LET n == Len(PriceSeries)
           d == result.data
       IN /\ n = 0 => /\ d.first_price = JsNull
                      /\ d.last_price = JsNull
                      /\ d.price_change = JsNull
          /\ n = 1 => /\ d.first_price = PricePoint(PriceSeries[1])
                      /\ d.last_price = d.first_price
                      /\ d.price_change = JsNull
          /\ n >= 2 => /\ d.first_price = PricePoint(PriceSeries[1])
                       /\ d.last_price = PricePoint(PriceSeries[n])
                       /\ d.price_change # JsNull
                       /\ Len(PriceSeries[1]) = 2 /\ Len(PriceSeries[n]) = 2
                            /\ PriceSeries[1][2] > 0 =>
                              ChangeBetween(PriceSeries[1][2], PriceSeries[n][2],
                                            d.price_change)
  /\ tool = "get_crypto_price_history" /\ Ended /\ GotDocument(reqs[1])
       /\ Len(PriceSeries) <= 1 => pc = "returned"
\* A series of one point was returned with that point as the first and the
\* last price and no change.
C28_Witness ==
  /\ HistoryReturned
  /\ Len(PriceSeries) = 1
  /\ result.data.first_price = [date |-> toISOString(1), price |-> PriceSeries[1][2]]
  /\ result.data.last_price = result.data.first_price
  /\ result.data.price_change = JsNull

\* The tools whose result carries a count, and the list each one counts.
CountedField ==
  CASE tool = "get_top_defi_protocols" -> "protocols"
    [] tool = "get_chain_tvl_data" -> "chains"
    [] tool = "get_defi_yields" -> "pools"
    [] tool = "get_stablecoin_data" -> "stablecoins"
    [] tool = "get_crypto_ohlc" -> "ohlc"
    [] tool = "get_crypto_categories" -> "categories"
    [] tool = "get_crypto_exchanges" -> "exchanges"
    [] OTHER -> "coins"
CountTools ==
  {"get_top_defi_protocols", "get_chain_tvl_data", "get_defi_yields",
   "get_stablecoin_data", "get_crypto_ohlc", "get_top_crypto_coins",
   "get_crypto_categories", "get_crypto_by_sector", "get_crypto_exchanges"}

\* C29: in every result that carries a count (top DeFi protocols, chain
\* TVL, yields, stablecoins, OHLC, top coins, categories, sector coins,
\* exchanges) count is the number of entries of the returned list, 0 when
\* the list is empty or is not there.
C29_CountIsTheLengthOfTheList ==
  Returned =>
    /\ tool \in CountTools <=> "count" \in DOMAIN result.data
    /\ tool \in CountTools =>
         result.data.count = IF CountedField \in DOMAIN result.data
                               THEN Len(result.data[CountedField]) ELSE 0
\* A result of 30 chains, counted 30, cut from a longer list.
C29_Witness ==
  /\ Returned /\ tool = "get_chain_tvl_data"
  /\ IsArray(reqs[1].data)
  /\ Len(reqs[1].data.json_array) > ChainsCap
  /\ Len(result.data.chains) = ChainsCap
  /\ result.data.count = ChainsCap

\* The TVL series received by get_chain_tvl_trend and the part of it the
\* history is made from.
TvlSeries == IF IsArray(reqs[1].data) THEN reqs[1].data.json_array ELSE <<>>
WindowStart == Len(TvlSeries) - Min(Len(TvlSeries), HistoryWindow)
TrendReturned == Returned /\ tool = "get_chain_tvl_trend"

\* C30: the history of get_chain_tvl_trend is the last min(n, 90) received
\* points in their order; current_tvl is the TVL of the last history point
\* and tvl_90d_ago that of the first (0 when the history is empty or the
\* point has no TVL); change_90d is computed from those two values.
C30_HistoryIsTheLastNinety ==
  TrendReturned =>
    LET d == result.data
    IN /\ Len(d.history) = Min(Len(TvlSeries), HistoryWindow)
       /\ \A k \in DOMAIN d.history :
            d.history[k] = [date |-> toISOString(TvlSeries[WindowStart + k].date),
                            tvl |-> Get(TvlSeries[WindowStart + k], "tvl")]
       /\ d.current_tvl = OrZero(IF d.history = <<>> THEN NoData
                                 ELSE TvlSeries[Len(TvlSeries)], "tvl")
       /\ d.tvl_90d_ago = OrZero(IF d.history = <<>> THEN NoData
                                 ELSE TvlSeries[WindowStart + 1], "tvl")
       /\ IF d.tvl_90d_ago > 0
            THEN ChangeBetween(d.tvl_90d_ago, d.current_tvl, d.change_90d)
            ELSE d.change_90d = NotAvailable
\* More than 90 points were received: the history is the last 90 of them
\* and the change is computed from its two ends.
C30_Witness ==
  /\ TrendReturned
  /\ Len(TvlSeries) > HistoryWindow
  /\ Len(result.data.history) = HistoryWindow
  /\ result.data.history[1].date = toISOString(TvlSeries[WindowStart + 1].date)
  /\ result.data.tvl_90d_ago = TvlSeries[WindowStart + 1].tvl
  /\ result.data.tvl_90d_ago # TvlSeries[1].tvl
  /\ result.data.current_tvl = TvlSeries[Len(TvlSeries)].tvl
  /\ result.data.change_90d # NotAvailable
====
